---- MODULE Spec2Model ----
(***************************************************************************)
(* NTRIP caster: the mount registry (ConnectionManager), the upload and    *)
(* download request handlers (NTRIPHandler) and the fan-out forwarder.     *)
(* Every handler thread is a process whose position is pc[c]; one action   *)
(* is one lock region or one call of the handler's code.                   *)
(***************************************************************************)
EXTENDS Integers, Sequences, FiniteSets, TLC

(* ---------------- bounds of the model ---------------- *)
MaxSeq == 3
MaxOutbox == 2
MaxSlow == 1
MaxTime == 1
MAX_CONNECTIONS_PER_USER == 3
\* MAX_CONNECTIONS and CONNECTION_QUEUE_SIZE of config.py, scaled down
MAX_CONNECTIONS == 2
CONNECTION_QUEUE_SIZE == 2
MaxAccepts == 4
\* block size of the hash inside HMAC (64 bytes for SHA-256), scaled down
BlockSize == 3
MaxPwLen == 4
MaxHeaders == 2

Conns == {"c1", "c2", "c3", "c4"}
Addrs == {"a1", "a2"}
\* peer address of each connection: c1 and c2 share an address, c3 and c4 another
client_address == [c \in Conns |-> IF c \in {"c1", "c2"} THEN "a1" ELSE "a2"]
Mounts == {"M1"}
Users == {"u1"}
NetstatFailed == {"failed"}

VARIABLES
    pc,                      \* position of the handler thread of each connection
    req,                     \* the parsed request of each connection
    resp,                    \* status code sent on the connection (0: none yet)
    sockOpen,                \* the server-side socket object is not closed
    peerUp,                  \* the peer has not closed its end
    established,             \* NTRIPHandler.mount_connection_established
    netstat,                 \* established_ips read by cleanup_zombie_connections
    timer,                   \* state of the producer's delayed_cleanup timer
    online_mounts,           \* ConnectionManager.online_mounts
    online_users,            \* ConnectionManager.online_users
    user_connection_count,   \* ConnectionManager.user_connection_count
    mount_connection_count,  \* ConnectionManager.mount_connection_count
    db_mounts,               \* mounts table of the credential store
    ring,                    \* forwarder: per-mount ring buffer
    clients,                 \* forwarder: registered subscribers
    now,                     \* int(time.time())
    main_pc,                 \* NTRIPCaster._main_loop: position of the accepting thread
    handler_pc,              \* NTRIPCaster._connection_handler: position of the thread
    connection_queue,        \* NTRIPCaster.connection_queue: number of queued sockets
    running,                 \* tasks submitted to the thread pool and not finished
    active_connections,      \* NTRIPCaster.active_connections
    total_connections,       \* NTRIPCaster.total_connections
    rejected_connections,    \* NTRIPCaster.rejected_connections
    accepted,                \* connections returned by server_socket.accept
    accept_closed,           \* accepted sockets closed by _main_loop
    db_mount_rows,           \* credential store: the rows of table mounts
    db_users,                \* credential store: the rows of table users
    call,                    \* a function call under examination: its arguments
    result,                  \* its return value
    mount_infos,             \* ConnectionManager.online_mounts: each MountInfo's STR fields
    str_threads,             \* wait_and_correct threads started and not yet run, per mount
    parsers,                 \* rtcm_manager.parsers: mounts with a parser
    stop_pc,                 \* NTRIPCaster.stop: position of the stopping thread
    lock_owner,              \* the thread that holds each RLock (NoThread if free)
    lock_depth,              \* how many times the owner has acquired each RLock
    thread_op,               \* the operation each thread is executing
    thread_ip,               \* the index of the instruction it executes next
    admissions,              \* per mount: which admission made the entry, started the
                             \* registered parser and started each waiting thread
    manager                  \* ParserManager: parsers, web_parsers, str_parsers,
                             \* current_web_mount; the parser threads made and stopped

casterVars == <<main_pc, handler_pc, connection_queue, running,
                active_connections, total_connections, rejected_connections,
                accepted, accept_closed>>

\* the state outside the request handlers
storeVars == <<db_mount_rows, db_users>>
\* the STR rows of the registered mounts and their correction threads
strVars == <<mount_infos, str_threads, parsers>>
stopVars == <<stop_pc>>
callVars == <<call, result>>
\* the locks of ConnectionManager and RTCM2ParserManager and the threads using them
lockVars == <<lock_owner, lock_depth, thread_op, thread_ip>>
admVars == <<admissions>>
mgrVars == <<manager>>
extraVars == <<lockVars, admVars, mgrVars>>
otherVars == <<casterVars, storeVars, callVars, strVars, stopVars, extraVars>>

handlerVars == <<pc, req, resp, sockOpen, peerUp, established, netstat, timer,
                 online_mounts, online_users, user_connection_count,
                 mount_connection_count, db_mounts, ring, clients, now>>

vars == <<handlerVars, otherVars>>

connVars == <<pc, req, resp, sockOpen, peerUp, established, netstat, timer>>
userVars == <<online_users, user_connection_count, mount_connection_count>>
fwdVars == <<ring, clients>>

NoReq == [kind |-> "none", mount |-> "M1", user |-> "u1",
          credOK |-> FALSE, auth |-> "none"]

\* uploads that carry the mount password in the request line
SourceRequests ==
    [kind : {"upload"}, mount : Mounts, user : Users,
     credOK : BOOLEAN, auth : {"source"}]

\* uploads that carry an Authorization header
BasicUploadRequests ==
    [kind : {"upload"}, mount : Mounts, user : Users,
     credOK : BOOLEAN, auth : {"basic"}]

DownloadRequests ==
    [kind : {"download"}, mount : Mounts, user : Users,
     credOK : BOOLEAN, auth : {"basic"}]

(* ---------------- dictionaries ---------------- *)
DictDel(d, k) == [x \in DOMAIN d \ {k} |-> d[x]]
DictSet(d, k, v) == [x \in DOMAIN d \cup {k} |-> IF x = k THEN v ELSE d[x]]

(* ---------------- ConnectionManager ---------------- *)
MountInfo(ip, sock) ==
    [ip_address |-> ip, client_socket |-> sock, str_state |-> "INITIAL",
     data_count |-> 0]

is_mount_online(m) == m \in DOMAIN online_mounts

get_user_connection_count(u) ==
    IF u \in DOMAIN user_connection_count THEN user_connection_count[u] ELSE 0

\* sockets closed and registry left by remove_mount_connection(m)
RemoveMountSockets(ms) == {online_mounts[m].client_socket : m \in ms \cap DOMAIN online_mounts}
RemoveMounts(ms) == [x \in DOMAIN online_mounts \ ms |-> online_mounts[x]]

remove_mount_connection(m) ==
    /\ online_mounts' = RemoveMounts({m})
    /\ sockOpen' = [c \in Conns |-> sockOpen[c] /\ c \notin RemoveMountSockets({m})]

add_mount_connection(m, ip, sock) ==
    online_mounts' = DictSet(DictDel(online_mounts, m), m, MountInfo(ip, sock))

update_mount_data_stats(mounts, m) ==
    IF m \in DOMAIN mounts
    THEN [mounts EXCEPT ![m].data_count = @ + 1]
    ELSE mounts

(* ---------------- connections ---------------- *)
established_ips == {client_address[c] : c \in {x \in Conns : pc[x] # "idle" /\ peerUp[x] /\ sockOpen[x]}}

Finish(c, code) ==
    /\ pc' = [pc EXCEPT ![c] = "done"]
    /\ resp' = [resp EXCEPT ![c] = code]

\* accept + dispatch: a worker thread starts handle_request on the connection
Connect(c, R) ==
    /\ pc[c] = "idle"
    /\ \E r \in R :
        /\ req' = [req EXCEPT ![c] = r]
        /\ pc' = [pc EXCEPT ![c] = IF r.kind = "upload" THEN "up_netstat" ELSE "dl_auth"]
    /\ UNCHANGED <<resp, sockOpen, peerUp, established, netstat, timer,
                   online_mounts, userVars, db_mounts, otherVars, fwdVars, now>>

\* the peer closes its end of the connection
PeerClose(c) ==
    /\ pc[c] \notin {"idle", "done"}
    /\ peerUp[c]
    /\ peerUp' = [peerUp EXCEPT ![c] = FALSE]
    /\ UNCHANGED <<pc, req, resp, sockOpen, established, netstat, timer,
                   online_mounts, userVars, db_mounts, otherVars, fwdVars, now>>

(* ---------------- handle_upload ---------------- *)
\* cleanup_zombie_connections: netstat is run before the lock is taken
UpNetstat(c) ==
    /\ pc[c] = "up_netstat"
    /\ \/ netstat' = [netstat EXCEPT ![c] = established_ips]
       \/ netstat' = [netstat EXCEPT ![c] = NetstatFailed]
    /\ pc' = [pc EXCEPT ![c] = "up_zombie"]
    /\ UNCHANGED <<req, resp, sockOpen, peerUp, established, timer,
                   online_mounts, userVars, db_mounts, otherVars, fwdVars, now>>

zombie_mounts(ips) == {m \in DOMAIN online_mounts : online_mounts[m].ip_address \notin ips}

cleanup_zombie_connections(c) ==
    /\ pc[c] = "up_zombie"
    /\ IF netstat[c] = NetstatFailed
       THEN UNCHANGED <<online_mounts, sockOpen>>
       ELSE /\ online_mounts' = RemoveMounts(zombie_mounts(netstat[c]))
            /\ sockOpen' = [x \in Conns |-> sockOpen[x] /\
                              x \notin RemoveMountSockets(zombie_mounts(netstat[c]))]
    /\ netstat' = [netstat EXCEPT ![c] = {}]
    /\ pc' = [pc EXCEPT ![c] = "up_online"]
    /\ UNCHANGED <<req, resp, peerUp, established, timer,
                   userVars, db_mounts, otherVars, fwdVars, now>>

UpIsOnline(c) ==
    /\ pc[c] = "up_online"
    /\ pc' = [pc EXCEPT ![c] = IF is_mount_online(req[c].mount) THEN "up_info" ELSE "up_auth"]
    /\ UNCHANGED <<req, resp, sockOpen, peerUp, established, netstat, timer,
                   online_mounts, userVars, db_mounts, otherVars, fwdVars, now>>

AddressConflict_Inverted(existing_ip, client_ip) == existing_ip = client_ip

\* the address comparison of handle_upload
AddressConflict(existing_ip, client_ip) == existing_ip # client_ip

UpGetInfo(c) ==
    /\ pc[c] = "up_info"
    /\ IF req[c].mount \notin DOMAIN online_mounts
       THEN /\ pc' = [pc EXCEPT ![c] = "up_auth"]
            /\ UNCHANGED <<resp, sockOpen>>
       ELSE IF AddressConflict(online_mounts[req[c].mount].ip_address, client_address[c])
       THEN /\ Finish(c, 409)
            /\ sockOpen' = [sockOpen EXCEPT ![c] = FALSE]
       ELSE /\ pc' = [pc EXCEPT ![c] = "up_evict"]
            /\ UNCHANGED <<resp, sockOpen>>
    /\ UNCHANGED <<req, peerUp, established, netstat, timer,
                   online_mounts, userVars, db_mounts, otherVars, fwdVars, now>>

UpEvict(c) ==
    /\ pc[c] = "up_evict"
    /\ remove_mount_connection(req[c].mount)
    /\ pc' = [pc EXCEPT ![c] = "up_auth"]
    /\ UNCHANGED <<req, resp, peerUp, established, netstat, timer,
                   userVars, db_mounts, otherVars, fwdVars, now>>

\* verify_user for an upload
verify_upload(r) ==
    /\ r.mount \in db_mounts
    /\ r.credOK
    /\ r.auth = "basic" => get_user_connection_count(r.user) < MAX_CONNECTIONS_PER_USER

UpAuth(c) ==
    /\ pc[c] = "up_auth"
    /\ IF verify_upload(req[c])
       THEN /\ pc' = [pc EXCEPT ![c] = "up_add"]
            /\ UNCHANGED <<resp, sockOpen>>
       ELSE /\ Finish(c, 401)
            /\ sockOpen' = [sockOpen EXCEPT ![c] = FALSE]
    /\ UNCHANGED <<req, peerUp, established, netstat, timer,
                   online_mounts, userVars, db_mounts, otherVars, fwdVars, now>>

UpAdd(c) ==
    /\ pc[c] = "up_add"
    /\ add_mount_connection(req[c].mount, client_address[c], c)
    /\ established' = [established EXCEPT ![c] = TRUE]
    /\ resp' = [resp EXCEPT ![c] = 200]
    /\ pc' = [pc EXCEPT ![c] = "recv"]
    /\ UNCHANGED <<req, sockOpen, peerUp, netstat, timer,
                   userVars, db_mounts, otherVars, fwdVars, now>>

(* ---------------- user connection table ---------------- *)
ConnectionId(u, m, t) == <<u, m, t>>

ConnectionInfo(u, m, t) ==
    [connection_id |-> ConnectionId(u, m, t), username |-> u, mount_name |-> m]

UserList(ou, u) == IF u \in DOMAIN ou THEN ou[u] ELSE << >>

\* online_users after add_user_connection(u, m)
AddUserList(ou, u, m, t) == DictSet(ou, u, Append(UserList(ou, u), ConnectionInfo(u, m, t)))

\* add_user_connection without its update of mount_connection_count
add_user_connection_NoMountCount(u, m) ==
    /\ online_users' = AddUserList(online_users, u, m, now)
    /\ user_connection_count' =
           DictSet(user_connection_count, u, get_user_connection_count(u) + 1)
    /\ UNCHANGED mount_connection_count

add_user_connection(u, m) ==
    /\ online_users' = AddUserList(online_users, u, m, now)
    /\ user_connection_count' =
           DictSet(user_connection_count, u, get_user_connection_count(u) + 1)
    /\ mount_connection_count' = [mount_connection_count EXCEPT ![m] = @ + 1]

\* records removed by remove_user_connection(u, connection_id) for <<u, connection_id>> in ids
Matching(ou, u, ids) == SelectSeq(UserList(ou, u), LAMBDA r : <<u, r.connection_id>> \in ids)
Remaining(ou, u, ids) == SelectSeq(UserList(ou, u), LAMBDA r : <<u, r.connection_id>> \notin ids)
CountMount(list, m) == Len(SelectSeq(list, LAMBDA r : r.mount_name = m))

\* number of removed records that refer to mount m
RECURSIVE RemovedOnMount(_, _, _)
RemovedOnMount(us, ids, m) ==
    IF us = {} THEN 0
    ELSE LET u == CHOOSE x \in us : TRUE IN
         CountMount(Matching(online_users, u, ids), m) + RemovedOnMount(us \ {u}, ids, m)

\* remove_user_connection(u, connection_id), called once for every <<u, connection_id>> in ids
remove_user_connections(ids) ==
    /\ online_users' =
           [u \in {x \in DOMAIN online_users : Remaining(online_users, x, ids) # << >>} |->
               Remaining(online_users, u, ids)]
    /\ user_connection_count' =
           [u \in {x \in DOMAIN user_connection_count :
                      x \in DOMAIN online_users => Remaining(online_users, x, ids) # << >>} |->
               user_connection_count[u] - Len(Matching(online_users, u, ids))]
    /\ mount_connection_count' =
           [m \in DOMAIN mount_connection_count |->
               mount_connection_count[m] - RemovedOnMount(DOMAIN online_users, ids, m)]

\* the test of the loop of remove_user_connection; None is NoId and NoMountArg
NoId == << >>
NoMountArg == "none"
should_remove(conn, connection_id, mount_name) ==
    IF connection_id # NoId /\ conn.connection_id = connection_id THEN TRUE
    ELSE IF mount_name # NoMountArg /\ conn.mount_name = mount_name THEN TRUE
    ELSE connection_id = NoId /\ mount_name = NoMountArg

connections_to_remove(username, connection_id, mount_name) ==
    SelectSeq(UserList(online_users, username),
              LAMBDA conn : should_remove(conn, connection_id, mount_name))

remove_user_connection(username, connection_id, mount_name) ==
    IF username \notin DOMAIN online_users
    THEN UNCHANGED userVars
    ELSE remove_user_connections(
             {<<username, conn.connection_id>> :
                 conn \in {connections_to_remove(username, connection_id, mount_name)[i] :
                    i \in 1..Len(connections_to_remove(username, connection_id, mount_name))}})

(* ---------------- forwarder ---------------- *)
RingSeq(m) == IF m \in DOMAIN ring THEN ring[m].seq ELSE 0

Subscriber(c, u, m, cid, start) ==
    [mount |-> m, username |-> u, connection_id |-> cid, start |-> start,
     outbox |-> << >>, delivered |-> << >>, dropped |-> << >>, slow |-> 0]

SubscribersOf(m) == {s \in DOMAIN clients : clients[s].mount = m}

Enqueue_NoDrop(sub, k) == [sub EXCEPT !.outbox = Append(@, k)]

Enqueue_DropNewest(sub, k) ==
    IF Len(sub.outbox) < MaxOutbox
    THEN [sub EXCEPT !.outbox = Append(@, k)]
    ELSE [sub EXCEPT !.outbox = Append(SubSeq(@, 1, Len(@) - 1), k),
                     !.dropped = Append(@, sub.outbox[Len(sub.outbox)]),
                     !.slow = @ + 1]

\* one subscriber's outbox after a non-blocking enqueue of chunk k
Enqueue(sub, k) ==
    IF Len(sub.outbox) < MaxOutbox
    THEN [sub EXCEPT !.outbox = Append(@, k)]
    ELSE [sub EXCEPT !.outbox = Append(Tail(@), k),
                     !.dropped = Append(@, Head(sub.outbox)),
                     !.slow = @ + 1]

\* subscribers of m that the publish of one more chunk evicts as slow consumers
SlowEvicted(m) ==
    {s \in SubscribersOf(m) : Enqueue(clients[s], RingSeq(m) + 1).slow > MaxSlow}

CanPublish_Blocking(m) ==
    \A s \in {x \in DOMAIN clients : clients[x].mount = m} :
        Len(clients[s].outbox) < MaxOutbox

\* whether publish(m, chunk) can proceed
CanPublish(m) == TRUE

\* clients after upload_data(m, chunk)
Published(m) ==
    [s \in DOMAIN clients \ SlowEvicted(m) |->
        IF clients[s].mount = m THEN Enqueue(clients[s], RingSeq(m) + 1) ELSE clients[s]]

IdsOf(ss) == {<<clients[s].username, clients[s].connection_id>> : s \in ss}

(* ---------------- upload: receive loop and cleanup ---------------- *)
\* recv returns data: forwarder.upload_data and update_mount_data_stats
UpRecvData(c) ==
    /\ pc[c] = "recv"
    /\ sockOpen[c] /\ peerUp[c]
    /\ RingSeq(req[c].mount) < MaxSeq
    /\ CanPublish(req[c].mount)
    /\ ring' = DictSet(ring, req[c].mount, [seq |-> RingSeq(req[c].mount) + 1])
    /\ clients' = Published(req[c].mount)
    /\ remove_user_connections(IdsOf(SlowEvicted(req[c].mount)))
    /\ sockOpen' = [x \in Conns |-> sockOpen[x] /\ x \notin SlowEvicted(req[c].mount)]
    /\ online_mounts' = update_mount_data_stats(online_mounts, req[c].mount)
    /\ UNCHANGED <<pc, req, resp, peerUp, established, netstat, timer, db_mounts, otherVars, now>>

\* what client_socket.recv can do: the socket keeps the timeout set in
\* NTRIPHandler.__init__, so a read on an open connection returns data or times
\* out; otherwise it returns EOF or raises a socket error
RecvOutcomes(c) ==
    IF sockOpen[c] /\ peerUp[c] THEN {"data", "timeout"} ELSE {"eof", "error"}

\* the outcomes after which the loop of _receive_rtcm_data is left:
\* socket.timeout is an OSError, and the handler of OSError comes first
LeavesLoop(outcome) == outcome \in {"eof", "error", "timeout"}

\* recv returns EOF, raises a socket error or times out: the loop is left
UpRecvEnd(c) ==
    /\ pc[c] = "recv"
    /\ \E outcome \in RecvOutcomes(c) : LeavesLoop(outcome)
    /\ pc' = [pc EXCEPT ![c] = "up_finally"]
    /\ UNCHANGED <<req, resp, sockOpen, peerUp, established, netstat, timer,
                   online_mounts, userVars, db_mounts, otherVars, fwdVars, now>>

\* NTRIPHandler._cleanup of an upload connection
cleanup_upload(c) ==
    IF established[c]
    THEN /\ online_mounts' = RemoveMounts({req[c].mount})
         /\ sockOpen' = [x \in Conns |-> sockOpen[x] /\ x # c /\
                            x \notin RemoveMountSockets({req[c].mount})]
    ELSE /\ online_mounts' = online_mounts
         /\ sockOpen' = [sockOpen EXCEPT ![c] = FALSE]

\* the finally block of _receive_rtcm_data: start the timer, then _cleanup
UpFinally(c) ==
    /\ pc[c] = "up_finally"
    /\ timer' = [timer EXCEPT ![c] = "pending"]
    /\ cleanup_upload(c)
    /\ pc' = [pc EXCEPT ![c] = "done"]
    /\ UNCHANGED <<req, resp, peerUp, established, netstat,
                   userVars, db_mounts, otherVars, fwdVars, now>>

\* delayed_cleanup, run by the timer 1.5 s after the loop was left;
\* its first call: forwarder.remove_mount_buffer
TimerRemoveBuffer(c) ==
    /\ timer[c] = "pending"
    /\ timer' = [timer EXCEPT ![c] = "buffer_removed"]
    /\ ring' = DictDel(ring, req[c].mount)
    /\ clients' = [s \in DOMAIN clients \ SubscribersOf(req[c].mount) |-> clients[s]]
    /\ remove_user_connections(IdsOf(SubscribersOf(req[c].mount)))
    /\ UNCHANGED <<pc, req, resp, sockOpen, peerUp, established, netstat,
                   online_mounts, db_mounts, otherVars, now>>

\* delayed_cleanup, second call: remove_mount_connection
TimerRemoveMount(c) ==
    /\ timer[c] = "buffer_removed"
    /\ timer' = [timer EXCEPT ![c] = "fired"]
    /\ remove_mount_connection(req[c].mount)
    /\ UNCHANGED <<pc, req, resp, peerUp, established, netstat,
                   userVars, db_mounts, otherVars, fwdVars, now>>

(* ---------------- handle_download ---------------- *)
\* verify_user for a download
verify_download(r) ==
    /\ r.mount \in db_mounts
    /\ r.credOK
    /\ get_user_connection_count(r.user) < MAX_CONNECTIONS_PER_USER

DlAuth(c) ==
    /\ pc[c] = "dl_auth"
    /\ IF verify_download(req[c])
       THEN /\ pc' = [pc EXCEPT ![c] = "dl_check"]
            /\ UNCHANGED <<resp, sockOpen>>
       ELSE /\ Finish(c, 401)
            /\ sockOpen' = [sockOpen EXCEPT ![c] = FALSE]
    /\ UNCHANGED <<req, peerUp, established, netstat, timer,
                   online_mounts, userVars, db_mounts, otherVars, fwdVars, now>>

\* the existence test of handle_download
check_mount_exists_in_db(m) == m \in db_mounts

DlCheckMount(c) ==
    /\ pc[c] = "dl_check"
    /\ IF check_mount_exists_in_db(req[c].mount)
       THEN /\ pc' = [pc EXCEPT ![c] = "dl_add_user"]
            /\ UNCHANGED <<resp, sockOpen>>
       ELSE /\ Finish(c, 404)
            /\ sockOpen' = [sockOpen EXCEPT ![c] = FALSE]
    /\ UNCHANGED <<req, peerUp, established, netstat, timer,
                   online_mounts, userVars, db_mounts, otherVars, fwdVars, now>>

DlAddUser(c) ==
    /\ pc[c] = "dl_add_user"
    /\ add_user_connection(req[c].user, req[c].mount)
    /\ pc' = [pc EXCEPT ![c] = "dl_add_client"]
    /\ UNCHANGED <<req, resp, sockOpen, peerUp, established, netstat, timer,
                   online_mounts, db_mounts, otherVars, fwdVars, now>>

\* the connection id add_user_connection returned to this handler
MyConnectionId(c) ==
    LET l == UserList(online_users, req[c].user) IN
    IF l = << >> THEN ConnectionId(req[c].user, req[c].mount, now)
    ELSE l[Len(l)].connection_id

\* forwarder.add_client and send_download_success_response
DlAddClient(c) ==
    /\ pc[c] = "dl_add_client"
    /\ \/ /\ clients' = DictSet(clients, c,
                 Subscriber(c, req[c].user, req[c].mount, MyConnectionId(c),
                            RingSeq(req[c].mount)))
          /\ resp' = [resp EXCEPT ![c] = 200]
          /\ pc' = [pc EXCEPT ![c] = "alive"]
          /\ UNCHANGED sockOpen
       \/ /\ req[c].mount \notin DOMAIN ring
          /\ Finish(c, 500)
          /\ sockOpen' = [sockOpen EXCEPT ![c] = FALSE]
          /\ UNCHANGED clients
    /\ UNCHANGED <<req, peerUp, established, netstat, timer,
                   online_mounts, userVars, db_mounts, otherVars, ring, now>>

\* _keep_connection_alive ends once the socket is closed: forwarder.remove_client
DlEnd(c) ==
    /\ pc[c] = "alive"
    /\ ~sockOpen[c]
    /\ pc' = [pc EXCEPT ![c] = "done"]
    /\ clients' = DictDel(clients, c)
    /\ remove_user_connections(IdsOf({c} \cap DOMAIN clients))
    /\ UNCHANGED <<req, resp, sockOpen, peerUp, established, netstat, timer,
                   online_mounts, db_mounts, otherVars, ring, now>>

(* ---------------- forwarder: sender task of a subscriber ---------------- *)
\* the sender takes the head of the outbox and writes it to the socket
Dequeue(sub) ==
    [sub EXCEPT !.outbox = Tail(@), !.delivered = Append(@, Head(sub.outbox))]

SenderSend(s) ==
    /\ s \in DOMAIN clients
    /\ clients[s].outbox # << >>
    /\ sockOpen[s] /\ peerUp[s]
    /\ clients' = [clients EXCEPT ![s] = Dequeue(@)]
    /\ UNCHANGED <<connVars, online_mounts, userVars, db_mounts, otherVars, ring, now>>

\* a socket write fails: the sender unsubscribes itself and closes
SenderError(s) ==
    /\ s \in DOMAIN clients
    /\ clients[s].outbox # << >>
    /\ ~(sockOpen[s] /\ peerUp[s])
    /\ clients' = DictDel(clients, s)
    /\ remove_user_connections(IdsOf({s}))
    /\ sockOpen' = [sockOpen EXCEPT ![s] = FALSE]
    /\ UNCHANGED <<pc, req, resp, peerUp, established, netstat, timer,
                   online_mounts, db_mounts, otherVars, ring, now>>

\* the 60 s window of the slow-consumer count elapses
SlowWindowElapsed(s) ==
    /\ s \in DOMAIN clients
    /\ clients[s].slow > 0
    /\ clients' = [clients EXCEPT ![s].slow = 0]
    /\ UNCHANGED <<connVars, online_mounts, userVars, db_mounts, otherVars, ring, now>>

\* the wall clock reaches the next second
Tick ==
    /\ now < MaxTime
    /\ now' = now + 1
    /\ UNCHANGED <<connVars, online_mounts, userVars, db_mounts, otherVars, fwdVars>>

(* ---------------- credential store (database.py) ---------------- *)
\* strings are sequences of characters; "NUL" is the character U+0000
NoPassword == << >>
NoUser == ""
NoOwner == "None"
Salts == {<<"5">>}
\* passwords the management interface stores, and passwords a peer may send
StoredPasswords == {<<"a">>, <<"b">>}
SuppliedPasswords == {<< >>, <<"a">>, <<"b">>, <<"a", "NUL">>}

\* the key HMAC derives from a password: zero-padded to the block size,
\* hashed first when longer
hmac_key(password) ==
    IF Len(password) > BlockSize
    THEN <<"#">> \o password
    ELSE password \o [i \in 1..(BlockSize - Len(password)) |-> "NUL"]

\* hashlib.pbkdf2_hmac('sha256', password, salt, 10000).hex()
pbkdf2_hex(password, salt) == hmac_key(password) \o <<"|">> \o salt

hash_password(password, salt) == salt \o <<"$">> \o pbkdf2_hex(password, salt)

\* str.split('$', 1)
DollarAt(s) == CHOOSE i \in 1..Len(s) : s[i] = "$" /\ \A j \in 1..(i - 1) : s[j] # "$"

verify_password(stored_password, provided_password) ==
    IF \A i \in 1..Len(stored_password) : stored_password[i] # "$"
    THEN stored_password = provided_password
    ELSE LET salt == SubSeq(stored_password, 1, DollarAt(stored_password) - 1)
             hash_value == SubSeq(stored_password, DollarAt(stored_password) + 1,
                                  Len(stored_password))
         IN pbkdf2_hex(provided_password, salt) = hash_value

verify_mount_and_user_AnyOwner(mount, username, password, mount_password, protocol_version) ==
    IF mount \notin DOMAIN db_mount_rows THEN FALSE
    ELSE IF protocol_version = "2.0"
    THEN /\ username \in DOMAIN db_users
         /\ verify_password(db_users[username].password, password)
    ELSE mount_password # NoPassword /\ db_mount_rows[mount].password = mount_password

verify_mount_and_user(mount, username, password, mount_password, protocol_version) ==
    IF mount \notin DOMAIN db_mount_rows THEN FALSE
    ELSE IF protocol_version = "2.0"
    THEN IF username = NoUser \/ password = NoPassword THEN FALSE
         ELSE IF username \notin DOMAIN db_users THEN FALSE
         ELSE IF ~verify_password(db_users[username].password, password) THEN FALSE
         ELSE IF /\ db_mount_rows[mount].user_id # NoOwner
                 /\ db_mount_rows[mount].user_id # db_users[username].id THEN FALSE
         ELSE TRUE
    ELSE IF mount_password = NoPassword THEN FALSE
         ELSE db_mount_rows[mount].password = mount_password

verify_download_user_Owner(mount, username, password) ==
    /\ mount \in DOMAIN db_mount_rows
    /\ username \in DOMAIN db_users
    /\ verify_password(db_users[username].password, password)
    /\ db_mount_rows[mount].user_id \in {NoOwner, db_users[username].id}

verify_download_user(mount, username, password) ==
    IF mount \notin DOMAIN db_mount_rows THEN FALSE
    ELSE IF username \notin DOMAIN db_users THEN FALSE
    ELSE verify_password(db_users[username].password, password)

\* None is modelled by the empty string: both are false for the caller
get_user_password(username) ==
    IF username \in DOMAIN db_users THEN db_users[username].password ELSE NoPassword

\* rows written by add_mount and add_user
MountRow(password, user_id) == [password |-> password, user_id |-> user_id]
UserRow(id, password, salt) == [id |-> id, password |-> hash_password(password, salt)]

InitStore ==
    /\ db_mount_rows = [m \in Mounts |-> MountRow(<<"a">>, NoOwner)]
    /\ db_users = [u \in Users |-> UserRow("id1", <<"b">>, <<"5">>)]
    /\ db_mounts = DOMAIN db_mount_rows

NoCall == [fn |-> "none"]
NoResult == [done |-> FALSE]

InitIdle ==
    /\ call = NoCall
    /\ result = NoResult

\* all strings over an alphabet up to a length
Strings(alphabet, n) == UNION {[1..k -> alphabet] : k \in 0..n}

HashCalls ==
    [fn : {"hash_password"}, p1 : Strings({"a", "NUL"}, MaxPwLen),
     p2 : Strings({"a", "NUL"}, MaxPwLen), salt : Salts]

\* stored = hash_password(p1) with a fresh salt, then verify_password(stored, p2)
CallHashVerify ==
    /\ call.fn = "hash_password"
    /\ ~result.done
    /\ result' = [done |-> TRUE,
                  stored |-> hash_password(call.p1, call.salt),
                  ok |-> verify_password(hash_password(call.p1, call.salt), call.p2)]
    /\ UNCHANGED <<call, handlerVars, casterVars, storeVars, strVars, stopVars, extraVars>>

(* ---------------- NTRIPHandler.verify_user ---------------- *)
\* hashlib.md5(f"{a}:{b}:{c}").hexdigest(): the digest of the joined fields
md5(fields) == <<"md5", fields>>
HexDigest(fields, letters) == [hex |-> md5(fields), letters |-> letters]
\* str.lower() of a hexadecimal digest
lower(h) == [h EXCEPT !.letters = "lower"]

\* the response of RFC 2617 for a secret and a uri
DigestResponse(username, realm, secret, nonce, method, uri, letters) ==
    HexDigest(<<md5(<<<<username>>, <<realm>>, secret>>), <<nonce>>,
                md5(<<<<method>>, uri>>)>>, letters)

NoHeader == [scheme |-> "", username |-> NoUser, password |-> NoPassword,
             realm |-> "", nonce |-> "", response |-> HexDigest(<< >>, "lower")]

BasicHeaders ==
    {[NoHeader EXCEPT !.scheme = "Basic", !.username = u, !.password = p] :
        u \in {"u1", "u2", "ux"}, p \in SuppliedPasswords}

\* the secrets a Digest response may have been computed from: a password, or
\* the record the store keeps for it
DigestSecrets == StoredPasswords \cup {hash_password(p, s) : p \in StoredPasswords, s \in Salts}

DigestHeaders(method, mount) ==
    {[NoHeader EXCEPT !.scheme = "Digest", !.username = u, !.realm = "NTRIP",
                      !.nonce = "n1",
                      !.response = DigestResponse(u, "NTRIP", secret, "n1", method, uri, letters)] :
        u \in {"u1", "ux"}, secret \in DigestSecrets,
        uri \in {<<"/", mount>>, <<mount>>}, letters \in {"lower", "upper"}}

Headers(method, mount) ==
    {NoHeader, [NoHeader EXCEPT !.scheme = "Other"]} \cup BasicHeaders
        \cup DigestHeaders(method, mount)

VerifyCall(protocol_type, request_type, method, mount, header, ntrip1_password) ==
    [fn |-> "verify_user", protocol_type |-> protocol_type,
     request_type |-> request_type, current_method |-> method, mount |-> mount,
     header |-> header, ntrip1_password |-> ntrip1_password]

\* the calls handle_upload, handle_rtsp_command and handle_download can make:
\* only a SOURCE request line sets ntrip1_password, and it is then classified
\* ntrip1_0 or ntrip0_8
UploadCalls ==
    {VerifyCall("ntrip1_0", "upload", "SOURCE", "M1", h, p) :
        h \in Headers("SOURCE", "M1"), p \in SuppliedPasswords \ {NoPassword}}
    \cup {VerifyCall("ntrip0_8", "upload", "SOURCE", "M1", h, p) :
        h \in {NoHeader} \cup BasicHeaders, p \in SuppliedPasswords}
    \cup {VerifyCall(d, "upload", "POST", "M1", h, NoPassword) :
        d \in {"ntrip1_0_http", "ntrip2_0"}, h \in Headers("POST", "M1")}
    \cup {VerifyCall("rtsp", "upload", "RECORD", "M1", h, NoPassword) :
        h \in Headers("RECORD", "M1")}
    \cup {VerifyCall(d, "upload", "POST", "M1", NoHeader, NoPassword) :
        d \in {"ntrip1_0", "http"}}

DownloadCalls ==
    {VerifyCall(d, "download", "GET", "M1", h, NoPassword) :
        d \in {"ntrip1_0_http", "ntrip2_0"}, h \in Headers("GET", "M1")}
    \cup {VerifyCall("ntrip1_0", "download", "GET", "M1", NoHeader, NoPassword)}

\* the outcome of verify_user: whether the credentials were accepted, and
\* whether the request was (credentials and the per-user limit)
Outcome(credentials, below_limit) ==
    [done |-> TRUE, credentials |-> credentials, valid |-> credentials /\ below_limit]

BelowUserLimit(username) == get_user_connection_count(username) < MAX_CONNECTIONS_PER_USER

_verify_basic_auth(c) ==
    LET username == c.header.username
        password == c.header.password
        is_valid ==
            IF c.request_type = "download"
            THEN verify_download_user(c.mount, username, password)
            ELSE IF c.protocol_type = "ntrip2_0"
            THEN verify_mount_and_user(c.mount, username, password, NoPassword, "2.0")
            ELSE verify_mount_and_user(c.mount, username, password, password, "1.0")
    IN Outcome(is_valid, BelowUserLimit(username))

_validate_digest_response(c, password, uri) ==
    /\ c.header.username # "" /\ c.header.realm # "" /\ c.header.nonce # ""
    /\ lower(c.header.response) =
         lower(DigestResponse(c.header.username, c.header.realm, password,
                              c.header.nonce, c.current_method, uri, "lower"))

_verify_digest_auth(c) ==
    LET username == c.header.username
        stored_password == get_user_password(username)
        is_valid ==
            IF c.request_type = "download"
            THEN verify_download_user(c.mount, username, stored_password)
            ELSE IF c.protocol_type = "ntrip2_0"
            THEN verify_mount_and_user(c.mount, username, stored_password, NoPassword, "2.0")
            ELSE verify_mount_and_user(c.mount, username, stored_password,
                                       stored_password, "1.0")
    IN IF username = NoUser \/ stored_password = NoPassword THEN Outcome(FALSE, TRUE)
       ELSE IF ~_validate_digest_response(c, stored_password, <<c.mount>>)
       THEN Outcome(FALSE, TRUE)
       ELSE Outcome(is_valid, BelowUserLimit(username))

\* the branch that verifies the password of the request line
VerifyRequestLinePassword(c) ==
    Outcome(verify_mount_and_user(c.mount, NoUser, NoPassword, c.ntrip1_password, "1.0"),
            TRUE)

verify_user(c) ==
    IF c.protocol_type \in {"ntrip1_0", "ntrip1_0_http"}
    THEN IF c.header.scheme = "Basic" THEN _verify_basic_auth(c)
         ELSE IF c.header.scheme = "Digest" THEN _verify_digest_auth(c)
         ELSE IF c.ntrip1_password # NoPassword THEN VerifyRequestLinePassword(c)
         ELSE Outcome(FALSE, TRUE)
    ELSE IF c.protocol_type = "ntrip0_8"
    THEN IF c.ntrip1_password # NoPassword THEN VerifyRequestLinePassword(c)
         ELSE Outcome(FALSE, TRUE)
    ELSE IF c.protocol_type \in {"ntrip2_0", "rtsp"}
    THEN IF c.header.scheme = "Basic" THEN _verify_basic_auth(c)
         ELSE IF c.header.scheme = "Digest" THEN _verify_digest_auth(c)
         ELSE IF c.header.scheme = "" /\ c.ntrip1_password # NoPassword
         THEN VerifyRequestLinePassword(c)
         ELSE Outcome(FALSE, TRUE)
    ELSE IF c.header.scheme # "Basic" THEN Outcome(FALSE, TRUE)
         ELSE Outcome(verify_mount_and_user(c.mount, c.header.username, c.header.password,
                                            c.header.password, "1.0"),
                      BelowUserLimit(c.header.username))

CallVerifyUser ==
    /\ call.fn = "verify_user"
    /\ ~result.done
    /\ result' = verify_user(call)
    /\ UNCHANGED <<call, handlerVars, casterVars, storeVars, strVars, stopVars, extraVars>>

\* the stores the management interface can have built: the mount with either
\* secret, unowned or owned by either user; u1 absent or with either password
StoreStates ==
    {<<mr, ur>> :
        mr \in {<< >>} \cup {[m \in Mounts |-> MountRow(s, o)] :
                    s \in StoredPasswords, o \in {NoOwner, "id1", "id2"}},
        ur \in {[u \in {"u2"} |-> UserRow("id2", <<"b">>, <<"5">>)]} \cup
               {[u \in {"u1", "u2"} |->
                    IF u = "u1" THEN UserRow("id1", p, <<"5">>)
                    ELSE UserRow("id2", <<"b">>, <<"5">>)] : p \in StoredPasswords}}

(* ---------------- update_mount (database.py) ---------------- *)
\* an optional argument: None, or a value
NoneArg == [given |-> FALSE]
Some(v) == [given |-> TRUE, value |-> v]

\* the mounts table is keyed by name here; mount_id names the row by the name
\* it has when the call starts. user_id is None ("None"), 'keep_current' or an id
update_mount(rows, users, mount_id, mount, password, user_id) ==
    IF mount_id \notin DOMAIN rows
    THEN [rows |-> rows, success |-> FALSE]
    ELSE LET old_mount == mount_id
             old_password == rows[mount_id].password
             old_user_id == rows[mount_id].user_id
             new_mount == IF mount.given THEN mount.value ELSE old_mount
             new_password == IF password.given THEN password.value ELSE old_password
             new_user_id == IF user_id # "keep_current" THEN user_id ELSE old_user_id
         IN  IF mount.given /\ mount.value # old_mount /\ mount.value \in DOMAIN rows
             THEN [rows |-> rows, success |-> FALSE]
             ELSE IF /\ new_user_id # NoOwner
                     /\ new_user_id \notin {users[u].id : u \in DOMAIN users}
             THEN [rows |-> rows, success |-> FALSE]
             ELSE [rows |-> DictSet(DictDel(rows, old_mount), new_mount,
                                    MountRow(new_password, new_user_id)),
                   success |-> TRUE]

\* the names a row of the mounts table can have or be given
StoreMounts == Mounts \cup {"M2"}

UpdateMountArgs ==
    [mount_id : StoreMounts,
     mount : {NoneArg} \cup {Some(m) : m \in StoreMounts},
     password : {NoneArg} \cup {Some(p) : p \in StoredPasswords},
     user_id : {NoOwner, "keep_current", "id1", "id2"}]

CallUpdateMount(a) ==
    /\ db_mount_rows' = update_mount(db_mount_rows, db_users, a.mount_id, a.mount,
                                     a.password, a.user_id).rows
    /\ db_mounts' = DOMAIN db_mount_rows'
    /\ call' = [fn |-> "update_mount", mount_id |-> a.mount_id, mount |-> a.mount,
                password |-> a.password, user_id |-> a.user_id]
    /\ result' = [done |-> TRUE,
                  success |-> update_mount(db_mount_rows, db_users, a.mount_id, a.mount,
                                           a.password, a.user_id).success]
    /\ UNCHANGED <<connVars, online_mounts, userVars, fwdVars, now, db_users,
                   casterVars, strVars, stopVars, extraVars>>

\* u1 holds no connection, or as many as a user may hold
UserStates ==
    {<< << >>, << >> >>,
     << [u \in {"u1"} |-> [i \in 1..MAX_CONNECTIONS_PER_USER |-> ConnectionInfo("u1", "M1", 0)]],
        [u \in {"u1"} |-> MAX_CONNECTIONS_PER_USER] >>}

(* ---------------- logging of a request (ntrip.py) ---------------- *)
\* a text is a sequence of lines, a line a sequence of whitespace-separated
\* tokens; these tokens carry a password or the credentials of a header
SecretTokens == {"pw", "http://u:pw@h/M1", "cred"}

RequestLines ==
    {<<"SOURCE", "pw", "/M1">>, <<"SOURCE", "pw", "M1">>, <<"SOURCE", "/M1">>,
     <<"SOURCE", "http://u:pw@h/M1">>, <<"SOURCE", "pw", "http://h/M1">>,
     <<"SOURCE", "pw", "/M1", "HTTP/1.1">>, <<"ADMIN", "pw", "/M1">>,
     <<"GET", "/M1", "HTTP/1.1">>, <<"POST", "/M1", "HTTP/1.1">>,
     <<"GET", "/M1">>}

HeaderLines ==
    {<<"Authorization:", "Basic", "cred">>, <<"authorization:", "Digest", "cred">>,
     <<"Authorization:", "Bearer", "cred">>, <<"User-Agent:", "NTRIP">>,
     <<"Host:", "h">>}

LoggedRequests ==
    [fn : {"handle_request"}, first : RequestLines,
     headers : UNION {[1..k -> HeaderLines] : k \in 0..MaxHeaders}]

\* str.lower() of a token
lower_token(t) ==
    CASE t = "Authorization:" -> "authorization:"
      [] t = "Basic" -> "basic"
      [] t = "Digest" -> "digest"
      [] t = "Bearer" -> "bearer"
      [] OTHER -> t

InLine(word, line) == \E i \in 1..Len(line) : lower_token(line[i]) = word

sanitize_first_line(parts) ==
    IF parts[1] \in {"SOURCE", "GET"} /\ Len(parts) >= 3
    THEN IF parts[1] = "SOURCE"
         THEN <<"SOURCE", "[PASSWORD_REDACTED]", parts[3]>> \o SubSeq(parts, 4, Len(parts))
         ELSE <<"GET", parts[2], "[PASSWORD_REDACTED]">>
    ELSE parts

sanitize_header_line(line) ==
    IF InLine("authorization:", line)
    THEN IF InLine("basic", line) THEN <<"Authorization:", "Basic", "[REDACTED]">>
         ELSE IF InLine("digest", line) THEN <<"Authorization:", "Digest", "[REDACTED]">>
         ELSE <<"Authorization:", "[REDACTED]">>
    ELSE line

_sanitize_request_for_logging(request) ==
    <<sanitize_first_line(request.first)>> \o
        [i \in 1..Len(request.headers) |-> sanitize_header_line(request.headers[i])]

\* _parse_headers and headers.get('authorization', ''): the value of the last
\* Authorization line
AuthorizationLines(request) ==
    {i \in 1..Len(request.headers) : lower_token(request.headers[i][1]) = "authorization:"}

auth_header(request) ==
    IF AuthorizationLines(request) = {} THEN << >>
    ELSE Tail(request.headers[CHOOSE i \in AuthorizationLines(request) :
                                 \A j \in AuthorizationLines(request) : j <= i])

\* handle_request: log_debug of the sanitized request
LogRequest ==
    /\ call.fn = "handle_request"
    /\ result = NoResult
    /\ result' = [done |-> call.first[1] \notin {"SOURCE", "POST"},
                  log |-> {_sanitize_request_for_logging(call)}]
    /\ UNCHANGED <<call, handlerVars, casterVars, storeVars, strVars, stopVars, extraVars>>

\* handle_upload: log_info of mount and auth_header[:50] before verify_user
LogUploadAuth ==
    /\ call.fn = "handle_request"
    /\ result # NoResult /\ ~result.done
    /\ result' = [done |-> TRUE,
                  log |-> result.log \cup
                      {<< IF auth_header(call) = << >> THEN <<"None">> ELSE auth_header(call) >>}]
    /\ UNCHANGED <<call, handlerVars, casterVars, storeVars, strVars, stopVars, extraVars>>

(* ---------------- ConnectionManager: the STR rows ---------------- *)
\* a string is a sequence of tokens; ";" is the separator of the STR fields,
\* and a field is the string between two separators
RowMounts == {"M1", "M2"}
Sockets == {"s1", "s2"}
UserAgents == {<<"ua">>}
\* config.py, the coordinates in units of 1e-5 degree
APP_AUTHOR == <<"2rtk">>
CASTER_COUNTRY == <<"CHN">>
CASTER_LATITUDE == 2520341
CASTER_LONGITUDE == 11027749

\* ';'.join(parts)
RECURSIVE Join(_)
Join(parts) ==
    IF parts = << >> THEN << >>
    ELSE IF Len(parts) = 1 THEN parts[1]
    ELSE parts[1] \o <<";">> \o Join(Tail(parts))

\* s.split(';')
RECURSIVE Split(_)
Split(s) ==
    IF \A i \in 1..Len(s) : s[i] # ";" THEN <<s>>
    ELSE LET k == CHOOSE i \in 1..Len(s) : s[i] = ";" /\ \A j \in 1..(i - 1) : s[j] # ";"
         IN <<SubSeq(s, 1, k - 1)>> \o Split(SubSeq(s, k + 1, Len(s)))

\* f"{v:.4f}" of a value in units of 1e-5 degree: its digits in units of 1e-4 degree
Format4(v) == <<ToString((v + 5) \div 10)>>

\* the results rtcm_manager.get_result hands over: that of a parser which has
\* decoded nothing (no bitrate, "N/A" for the empty statistics), the message
\* statistics only, and the statistics with the station's location
NumericKeys == {"lat", "lon", "bitrate"}
ParseEmpty ==
    [k \in {"bitrate", "message_types_str", "gnss_combined", "carrier_combined"} |->
        IF k = "bitrate" THEN 0 ELSE <<"N/A">>]
ParseStats ==
    [k \in {"bitrate", "message_types_str", "gnss_combined", "carrier_combined"} |->
        CASE k = "bitrate" -> 1200
          [] k = "message_types_str" -> <<"1005(10)">>
          [] k = "gnss_combined" -> <<"GPS+BDS">>
          [] k = "carrier_combined" -> <<"L1+L2">>]
ParseLocated ==
    [k \in DOMAIN ParseStats \cup {"city", "country", "lat", "lon"} |->
        CASE k = "city" -> <<"Beijing">>
          [] k = "country" -> <<"CHN">>
          [] k = "lat" -> 4000004
          [] k = "lon" -> 11600000
          [] OTHER -> ParseStats[k]]
ParseResults == {ParseEmpty, ParseStats, ParseLocated}

\* parse_result.get(k) is truthy
Has(parse_result, k) ==
    /\ k \in DOMAIN parse_result
    /\ IF k \in NumericKeys THEN parse_result[k] # 0 ELSE parse_result[k] # << >>
\* parse_result.get(k, default)
Get(parse_result, k, default) ==
    IF k \in DOMAIN parse_result THEN parse_result[k] ELSE default

\* the final field is inverted by every correction
_update_str_fields_Toggle(str_parts, parse_result, mode) ==
    [i \in 1..Len(str_parts) |->
        IF i = Len(str_parts)
        THEN (IF mode = "initial" \/ str_parts[i] = <<"YES">> THEN <<"NO">> ELSE <<"YES">>)
        ELSE str_parts[i]]

\* the final field keeps its value whatever the mode
_update_str_fields_KeepFlag(str_parts, parse_result, mode) ==
    [i \in 1..Len(str_parts) |->
        IF i = 14 THEN <<"2RTK_NtirpCaster">>
        ELSE IF i = 17 THEN <<"N">>
        ELSE str_parts[i]]

\* _update_str_fields: the fields of the row after the assignments, the last
\* assignment (str_parts[-1]) taking precedence
_update_str_fields(str_parts, parse_result, mode) ==
    [i \in 1..Len(str_parts) |->
        IF i = Len(str_parts) THEN (IF mode = "initial" THEN <<"NO">> ELSE <<"YES">>)
        ELSE IF i = 18 /\ Has(parse_result, "bitrate")
            THEN <<ToString(parse_result["bitrate"])>>
        ELSE IF i = 17 THEN <<"N">>
        ELSE IF i = 14 THEN <<"2RTK_NtirpCaster">>
        ELSE IF i = 11 /\ Has(parse_result, "lon") THEN Format4(parse_result["lon"])
        ELSE IF i = 10 /\ Has(parse_result, "lat") THEN Format4(parse_result["lat"])
        ELSE IF i = 9 /\ Has(parse_result, "country") THEN parse_result["country"]
        ELSE IF i = 7 /\ Has(parse_result, "gnss_combined") THEN parse_result["gnss_combined"]
        ELSE IF i = 6 /\ Has(parse_result, "carrier_combined")
            THEN parse_result["carrier_combined"]
        ELSE IF i = 5 /\ Has(parse_result, "message_types_str")
            THEN parse_result["message_types_str"]
        ELSE IF i = 3 /\ Has(parse_result, "city") THEN parse_result["city"]
        ELSE str_parts[i]]

\* _create_initial_str_parts; MountInfo.city and MountInfo.country are never set
_create_initial_str_parts(mount_name, parse_result) ==
    _update_str_fields(
        << <<"STR">>,
           <<mount_name>>,
           IF Has(parse_result, "city") THEN parse_result["city"] ELSE <<"none">>,
           <<"RTCM3.x">>,
           Get(parse_result, "message_types_str", <<"1005">>),
           <<"0">>,
           Get(parse_result, "gnss_combined", <<"GPS">>),
           APP_AUTHOR,
           IF Has(parse_result, "country") THEN parse_result["country"] ELSE CASTER_COUNTRY,
           Format4(IF Has(parse_result, "lat") THEN parse_result["lat"] ELSE CASTER_LATITUDE),
           Format4(IF Has(parse_result, "lon") THEN parse_result["lon"] ELSE CASTER_LONGITUDE),
           <<"0">>, <<"0">>, <<"2RTK_NtirpCaster">>, <<"N">>, <<"B">>, <<"N">>,
           <<"500">>, <<"NO">> >>,
        parse_result, "initial")

\* position of a mount in the insertion-ordered dict online_mounts, 0 if absent
MountIndex(infos, mount_name) ==
    IF \E i \in 1..Len(infos) : infos[i].mount_name = mount_name
    THEN CHOOSE i \in 1..Len(infos) : infos[i].mount_name = mount_name
    ELSE 0
LiveMounts(infos) == {infos[i].mount_name : i \in 1..Len(infos)}
\* del online_mounts[mount_name]
DelMount(infos, mount_name) ==
    SelectSeq(infos, LAMBDA info : info.mount_name # mount_name)

\* MountInfo(...) as add_mount_connection constructs it
NewMountInfo(mount_name, user_agent, client_socket) ==
    [mount_name |-> mount_name, user_agent |-> user_agent,
     client_socket |-> client_socket, str_data |-> << >>,
     initial_str_generated |-> FALSE, final_str_generated |-> FALSE]

\* _process_str_data: online_mounts after the call
_process_str_data(infos, mount_name, parse_result, mode) ==
    LET k == MountIndex(infos, mount_name)
        original_str == infos[k].str_data
        fresh == mode = "initial" \/ original_str = << >>
        str_parts == IF fresh THEN _create_initial_str_parts(mount_name, parse_result)
                     ELSE _update_str_fields(Split(original_str), parse_result, mode)
    IN  IF k = 0 THEN infos
        ELSE IF mode \notin {"initial", "correct", "regenerate"} THEN infos
        ELSE IF ~fresh /\ Len(Split(original_str)) < 19 THEN infos
        ELSE [infos EXCEPT ![k] =
                 [@ EXCEPT !.str_data = Join(str_parts),
                           !.initial_str_generated = (mode = "initial") \/ @,
                           !.final_str_generated = (mode # "initial") \/ @]]

\* the row of a mount without str_data
DefaultRow(info) ==
    Join(<< <<"STR">>, <<info.mount_name>>, <<"none">>, <<"RTCM 3.3">>, <<"1005(10)">>,
            <<"0">>, <<"GPS">>, <<"2RTK">>, <<"CHN">>, <<"0.0">>, <<"0.0">>, <<"0">>,
            <<"0">>, IF info.user_agent # << >> THEN info.user_agent ELSE <<"unknown">>,
            <<"N">>, <<"B">>, <<"N">>, <<"500">>, <<"NO">> >>)

\* every mount listed with the default row
generate_mount_list_Default(infos) ==
    [i \in 1..Len(infos) |-> DefaultRow(infos[i])]

\* generate_mount_list: one line per entry of online_mounts, in its order
generate_mount_list(infos) ==
    [i \in 1..Len(infos) |->
        IF infos[i].str_data # << >> THEN infos[i].str_data ELSE DefaultRow(infos[i])]

CasLine == <<"CAS">>
NetLine == <<"NET">>

\* _send_mount_list: the response; body is content_str as its lines, each of
\* which '\r\n' ends
_send_mount_list(infos, ntrip_version) ==
    LET content_lines == <<CasLine, NetLine>> \o generate_mount_list(infos)
    IN  IF ntrip_version = "2.0"
        THEN [done |-> TRUE, status_line |-> "HTTP/1.1 200 OK",
              content_length |-> Len(content_lines), content_type |-> "text/plain",
              body |-> content_lines, trailer |-> << >>]
        ELSE [done |-> TRUE, status_line |-> "SOURCETABLE 200 OK",
              content_length |-> Len(content_lines), content_type |-> "text/plain",
              body |-> content_lines, trailer |-> <<"ENDSOURCETABLE">>]

MaxThreads == 2

\* admissions of one mount name are told apart by a number; 0 stands for none
NoAdmission == 0
AdmissionIds == 1..(MaxThreads + 2)

InitAdmissions ==
    admissions = [m \in RowMounts |->
                    [entry |-> NoAdmission, parser |-> NoAdmission, threads |-> << >>]]

\* a number that no entry, parser or waiting thread of the mount carries
FreshAdmission(mount_name) ==
    CHOOSE id \in AdmissionIds :
        /\ id \notin {admissions[mount_name].entry, admissions[mount_name].parser}
        /\ \A k \in 1..Len(admissions[mount_name].threads) :
               admissions[mount_name].threads[k] # id
        /\ \A other \in AdmissionIds :
               (/\ other \notin {admissions[mount_name].entry, admissions[mount_name].parser}
                /\ \A k \in 1..Len(admissions[mount_name].threads) :
                       admissions[mount_name].threads[k] # other) => id <= other

RemoveAt(seq, k) == SubSeq(seq, 1, k - 1) \o SubSeq(seq, k + 1, Len(seq))

InitStr ==
    /\ mount_infos = << >>
    /\ str_threads = [m \in RowMounts |-> 0]
    /\ parsers = {}

\* add_mount_connection, one region of mount_lock: the entry is replaced, its
\* initial row generated, and start_str_correction starts the parser and the
\* wait_and_correct thread unless the parser fails to start.  A response
\* computed before is not kept in view.
AddMount(mount_name, user_agent, client_socket) ==
    /\ \A i \in 1..Len(mount_infos) : mount_infos[i].client_socket # client_socket
    /\ str_threads[mount_name] < MaxThreads
    /\ mount_infos' = _process_str_data(
            Append(DelMount(mount_infos, mount_name),
                   NewMountInfo(mount_name, user_agent, client_socket)),
            mount_name, << >>, "initial")
    /\ \E success \in BOOLEAN :
          IF success
          THEN /\ parsers' = parsers \cup {mount_name}
               /\ str_threads' = [str_threads EXCEPT ![mount_name] = @ + 1]
          ELSE /\ parsers' = parsers \ {mount_name}
               /\ UNCHANGED str_threads
    /\ call' = NoCall /\ result' = NoResult
    /\ UNCHANGED <<handlerVars, casterVars, storeVars, stopVars, lockVars, mgrVars>>

\* remove_mount_connection
RemoveMount(mount_name) ==
    /\ mount_name \in LiveMounts(mount_infos)
    /\ mount_infos' = DelMount(mount_infos, mount_name)
    /\ call' = NoCall /\ result' = NoResult
    /\ UNCHANGED <<str_threads, parsers, handlerVars, casterVars, storeVars, stopVars, lockVars, mgrVars>>

\* wait_and_correct after its sleep: the result of the mount's parser, if there
\* is one, is applied in mode "correct", and the parser is stopped
WaitAndCorrect(mount_name) ==
    /\ str_threads[mount_name] > 0
    /\ str_threads' = [str_threads EXCEPT ![mount_name] = @ - 1]
    /\ IF mount_name \in parsers
       THEN \E parse_result \in ParseResults :
               mount_infos' = _process_str_data(mount_infos, mount_name, parse_result, "correct")
       ELSE UNCHANGED mount_infos
    /\ parsers' = parsers \ {mount_name}
    /\ call' = NoCall /\ result' = NoResult
    /\ UNCHANGED <<handlerVars, casterVars, storeVars, stopVars, lockVars, mgrVars>>

\* a client is sent the mount list
SendMountList(ntrip_version) ==
    /\ call' = [fn |-> "_send_mount_list", ntrip_version |-> ntrip_version]
    /\ result' = _send_mount_list(mount_infos, ntrip_version)
    /\ UNCHANGED <<strVars, stopVars, extraVars, handlerVars, casterVars, storeVars>>

\* which admission the objects of a step belong to: the entry and, when the
\* parser started, the parser and the new thread belong to the admission made
AdmitObserved(mount_name) ==
    admissions' = [admissions EXCEPT ![mount_name] =
        IF str_threads'[mount_name] > str_threads[mount_name]
        THEN [entry |-> FreshAdmission(mount_name),
              parser |-> FreshAdmission(mount_name),
              threads |-> Append(@.threads, FreshAdmission(mount_name))]
        ELSE [entry |-> FreshAdmission(mount_name),
              parser |-> NoAdmission,
              threads |-> @.threads]]

RemoveObserved(mount_name) ==
    admissions' = [admissions EXCEPT ![mount_name].entry = NoAdmission]

\* one of the waiting threads of the mount is the one that ran
CorrectObserved(mount_name) ==
    \E k \in 1..Len(admissions[mount_name].threads) :
        admissions' = [admissions EXCEPT ![mount_name] =
            [entry |-> @.entry, parser |-> NoAdmission,
             threads |-> RemoveAt(@.threads, k)]]

(* ---------------- NTRIPHandler: GET requests ---------------- *)
\* a GET request: the tokens of its first line and, of its headers, the
\* keywords the lower-cased User-Agent contains, the Authorization header
\* (NoHeader if absent), whether Host and Connection are present, and the
\* value of Ntrip-Version ("" if absent)
GetRequest(request_line, user_agent, authorization, ntrip_version, host, connection) ==
    [fn |-> "handle_request", request_line |-> request_line,
     user_agent |-> user_agent, authorization |-> authorization,
     ntrip_version |-> ntrip_version, host |-> host, connection |-> connection]

GetRequests ==
    {GetRequest(l, ua, a, nv, h, c) :
        l \in {<<"GET", p, v>> : p \in {"/", "/sourcetable", "/M1"},
                                 v \in {"HTTP/1.1", "HTTP/1.0"}}
              \cup {<<"GET", "/">>, <<"GET", "/sourcetable">>},
        ua \in {{}, {"ntrip"}, {"ntrip", "2.0"}, {"leica"}},
        a \in {NoHeader} \cup
              {[NoHeader EXCEPT !.scheme = "Basic", !.username = "u1", !.password = pw] :
                  pw \in StoredPasswords},
        nv \in {"", "Ntrip/2.0", "NTRIP/2.0"},
        h \in BOOLEAN, c \in BOOLEAN}

\* _should_downgrade_protocol
_should_downgrade_protocol(headers) ==
    \/ \E client \in {"ntrip", "rtk", "gnss", "leica", "trimble"} :
          client \in headers.user_agent /\ "2.0" \notin headers.user_agent
    \/ ~headers.connection \/ ~headers.host

\* _determine_ntrip_version for a request line "GET <path> HTTP/<v>": the
\* protocol_type and the ntrip_version it sets
_determine_ntrip_version(headers) ==
    LET http11 == headers.request_line[3] = "HTTP/1.1"
        v20 == [protocol_type |-> "ntrip2_0", ntrip_version |-> "2.0"]
        v10http == [protocol_type |-> "ntrip1_0_http", ntrip_version |-> "1.0"]
    IN  IF headers.user_agent \cap {"ntrip", "rtk", "gnss", "gps"} # {}
        THEN (IF "2.0" \in headers.user_agent \/ http11 THEN v20 ELSE v10http)
        ELSE IF headers.authorization # NoHeader
        THEN (IF http11 THEN v20 ELSE v10http)
        ELSE IF headers.ntrip_version = "NTRIP/2.0" THEN v20
        ELSE IF _should_downgrade_protocol(headers)
        THEN [protocol_type |-> "ntrip1_0", ntrip_version |-> "1.0"]
        ELSE IF headers.user_agent \cap {"ntrip", "rtk", "gnss"} # {} THEN v20
        ELSE [protocol_type |-> "http", ntrip_version |-> "2.0"]

\* send_error_response
send_error_response(ntrip_version, code) ==
    [done |-> TRUE,
     status_line |-> IF ntrip_version = "2.0" THEN "HTTP/1.1" ELSE "ERROR",
     code |-> code, content_type |-> "text/plain", body |-> << >>, trailer |-> << >>]

\* handle_http_get
handle_http_get(path) ==
    IF path = "/" \/ path = ""
    THEN [done |-> TRUE, status_line |-> "HTTP/1.1 200 OK", content_type |-> "text/html",
          body |-> << <<"<!DOCTYPE html>">> >>, trailer |-> << >>]
    ELSE send_error_response("2.0", 404)

\* send_auth_challenge
send_auth_challenge(ntrip_version) ==
    [done |-> TRUE,
     status_line |-> IF ntrip_version = "2.0" THEN "HTTP/1.1 401 Unauthorized"
                     ELSE "SOURCETABLE 401 Unauthorized",
     code |-> 401, www_authenticate |-> {"Basic", "Digest"}]

\* send_download_success_response
send_download_success_response(ntrip_version) ==
    IF ntrip_version = "2.0"
    THEN [done |-> TRUE, status_line |-> "HTTP/1.1 200 OK",
          content_type |-> "application/octet-stream",
          headers |-> {"Connection: keep-alive", "Ntrip-Version: NTRIP/2.0"}]
    ELSE [done |-> TRUE, status_line |-> "ICY 200 OK", content_type |-> "",
          headers |-> {"Connection: keep-alive"}]

\* path.lstrip('/') of the paths of GetRequests
MountOfPath(path) == IF path = "/M1" THEN "M1" ELSE path

\* handle_download up to its response: the mount list, or for a mount path the
\* answer to the credentials
handle_download(infos, request, d) ==
    LET path == request.request_line[2]
        mount == MountOfPath(path)
    IN  IF path \in {"/", "", "/sourcetable"}
        THEN _send_mount_list(infos, d.ntrip_version)
        ELSE IF ~verify_user(VerifyCall(d.protocol_type, "download", "GET", mount,
                                        request.authorization, NoPassword)).valid
        THEN send_auth_challenge(d.ntrip_version)
        ELSE IF ~check_mount_exists_in_db(mount)
        THEN send_error_response(d.ntrip_version, 404)
        ELSE send_download_success_response(d.ntrip_version)

\* handle_request for a line whose first token is GET
handle_request(infos, request) ==
    IF Len(request.request_line) # 3
    THEN send_error_response("1.0", 400)
    ELSE LET path == request.request_line[2]
             d == _determine_ntrip_version(request)
         IN  IF d.protocol_type \in {"ntrip1_0_http", "ntrip2_0", "ntrip1_0", "ntrip0_8"}
             THEN handle_download(infos, request, d)
             ELSE handle_http_get(path)

\* one GET request is answered
HandleGet ==
    /\ call.fn = "handle_request" /\ result = NoResult
    /\ result' = handle_request(mount_infos, call)
    /\ UNCHANGED <<call, strVars, stopVars, extraVars, handlerVars, casterVars, storeVars>>

\* registries: empty, one mount with its initial row, two mounts one of them corrected
Registries ==
    LET one == _process_str_data(<<NewMountInfo("M1", <<"ua">>, "s1")>>, "M1", << >>, "initial")
        two == _process_str_data(Append(one, NewMountInfo("M2", <<"ua">>, "s2")),
                                 "M2", << >>, "initial")
    IN  {<< >>, one, _process_str_data(two, "M1", ParseLocated, "correct")}

(* ---------------- NTRIPHandler: RTSP commands ---------------- *)
RtspCall(method, mount, header) ==
    [fn |-> "handle_rtsp_command", method |-> method, mount |-> mount, header |-> header]

RtspCalls ==
    {RtspCall(method, "M1", h) : method \in {"PLAY", "PAUSE"}, h \in Headers("PLAY", "M1")}

\* handle_download for a mount path, from verify_user to the subscription:
\* the status lines sent and whether add_user_connection and add_client ran
DownloadPath(protocol_type, ntrip_version, method, mount, header) ==
    IF ~verify_user(VerifyCall(protocol_type, "download", method, mount,
                               header, NoPassword)).valid
    THEN [done |-> TRUE, responses |-> <<send_auth_challenge(ntrip_version).status_line>>,
          subscribed |-> FALSE, username |-> NoUser, mount |-> mount]
    ELSE IF ~check_mount_exists_in_db(mount)
    THEN [done |-> TRUE, responses |-> <<"ERROR 404">>,
          subscribed |-> FALSE, username |-> NoUser, mount |-> mount]
    ELSE [done |-> TRUE,
          responses |-> <<send_download_success_response(ntrip_version).status_line>>,
          subscribed |-> TRUE, username |-> header.username, mount |-> mount]

\* _handle_rtsp_play: the RTSP answer, then handle_download
_handle_rtsp_play(c) ==
    LET d == DownloadPath("rtsp", "1.0", c.method, c.mount, c.header)
    IN  [d EXCEPT !.responses = <<"RTSP/1.0 200 OK">> \o @]

\* handle_rtsp_command: verify_user is called without a request type, which
\* is then "upload"; the command is dispatched when it succeeds
handle_rtsp_command(c) ==
    IF ~verify_user(VerifyCall("rtsp", "upload", c.method, c.mount,
                               c.header, NoPassword)).valid
    THEN [done |-> TRUE, responses |-> <<send_auth_challenge("1.0").status_line>>,
          subscribed |-> FALSE, username |-> NoUser, mount |-> c.mount]
    ELSE IF c.method = "PLAY" THEN _handle_rtsp_play(c)
    ELSE [done |-> TRUE, responses |-> <<"RTSP/1.0 200 OK">>,
          subscribed |-> FALSE, username |-> NoUser, mount |-> c.mount]

CallRtsp ==
    /\ call.fn = "handle_rtsp_command"
    /\ ~result.done
    /\ result' = handle_rtsp_command(call)
    /\ UNCHANGED <<call, handlerVars, casterVars, storeVars, strVars, stopVars, extraVars>>

(* ---------------- NTRIPCaster.stop ---------------- *)
InitStop == stop_pc = "idle"

\* a worker of the thread pool is running the handler of a connection
WorkerRunning(c) == pc[c] \notin {"idle", "done"}

\* stop is called: self.running = False
StopBegin ==
    /\ stop_pc = "idle"
    /\ stop_pc' = "close"
    /\ UNCHANGED <<handlerVars, casterVars, storeVars, callVars, strVars, extraVars>>

\* server_socket.close()
StopCloseServer ==
    /\ stop_pc = "close"
    /\ stop_pc' = "shutdown"
    /\ UNCHANGED <<handlerVars, casterVars, storeVars, callVars, strVars, extraVars>>

\* thread_pool.shutdown(wait=True) returns once every worker has returned
StopShutdownPool ==
    /\ stop_pc = "shutdown"
    /\ \A c \in Conns : ~WorkerRunning(c)
    /\ stop_pc' = "queue"
    /\ UNCHANGED <<handlerVars, casterVars, storeVars, callVars, strVars, extraVars>>

\* the sockets left in connection_queue are closed, and stop returns
StopDrainQueue ==
    /\ stop_pc = "queue"
    /\ stop_pc' = "done"
    /\ connection_queue' = 0
    /\ UNCHANGED <<main_pc, handler_pc, running, active_connections, total_connections,
                   rejected_connections, accepted, accept_closed,
                   handlerVars, storeVars, callVars, strVars, extraVars>>

StopStep ==
    \/ StopBegin
    \/ StopCloseServer
    \/ StopShutdownPool
    \/ StopDrainQueue

(* ---------------- NTRIPCaster: accepting connections ---------------- *)
InitCaster ==
    /\ main_pc = "accept"
    /\ handler_pc = "get"
    /\ connection_queue = 0
    /\ running = 0
    /\ active_connections = 0
    /\ total_connections = 0
    /\ rejected_connections = 0
    /\ accepted = 0
    /\ accept_closed = 0

\* _main_loop: accept, then the limit test under connection_lock
MainAccept ==
    /\ main_pc = "accept"
    /\ accepted < MaxAccepts
    /\ accepted' = accepted + 1
    /\ IF active_connections >= MAX_CONNECTIONS
       THEN /\ accept_closed' = accept_closed + 1
            /\ rejected_connections' = rejected_connections + 1
            /\ UNCHANGED main_pc
       ELSE /\ main_pc' = "put"
            /\ UNCHANGED <<rejected_connections, accept_closed>>
    /\ UNCHANGED <<handler_pc, connection_queue, running, active_connections,
                   total_connections, handlerVars, storeVars, strVars, stopVars, extraVars, callVars>>

MainPut_Uncounted ==
    /\ main_pc = "put"
    /\ IF connection_queue < CONNECTION_QUEUE_SIZE
       THEN /\ connection_queue' = connection_queue + 1
            /\ total_connections' = total_connections + 1
            /\ UNCHANGED <<rejected_connections, accept_closed>>
       ELSE /\ accept_closed' = accept_closed + 1
            /\ UNCHANGED <<connection_queue, total_connections, rejected_connections>>
    /\ main_pc' = "accept"
    /\ UNCHANGED <<handler_pc, running, active_connections, accepted, handlerVars, storeVars, strVars, stopVars, extraVars, callVars>>

\* _main_loop: connection_queue.put, or Full after the timeout
MainPut ==
    /\ main_pc = "put"
    /\ IF connection_queue < CONNECTION_QUEUE_SIZE
       THEN /\ connection_queue' = connection_queue + 1
            /\ total_connections' = total_connections + 1
            /\ UNCHANGED <<rejected_connections, accept_closed>>
       ELSE /\ accept_closed' = accept_closed + 1
            /\ rejected_connections' = rejected_connections + 1
            /\ UNCHANGED <<connection_queue, total_connections>>
    /\ main_pc' = "accept"
    /\ UNCHANGED <<handler_pc, running, active_connections, accepted, handlerVars, storeVars, strVars, stopVars, extraVars, callVars>>

\* _connection_handler: connection_queue.get and thread_pool.submit
HandlerSubmit ==
    /\ handler_pc = "get"
    /\ connection_queue > 0
    /\ connection_queue' = connection_queue - 1
    /\ running' = running + 1
    /\ handler_pc' = "count"
    /\ UNCHANGED <<main_pc, active_connections, total_connections,
                   rejected_connections, accepted, accept_closed,
                   handlerVars, storeVars, strVars, stopVars, extraVars, callVars>>

\* _connection_handler: active_connections += 1 under connection_lock
HandlerCount ==
    /\ handler_pc = "count"
    /\ active_connections' = active_connections + 1
    /\ handler_pc' = "get"
    /\ UNCHANGED <<main_pc, connection_queue, running, total_connections,
                   rejected_connections, accepted, accept_closed,
                   handlerVars, storeVars, strVars, stopVars, extraVars, callVars>>

\* _handle_client_connection: the request is over, finally: active_connections -= 1
WorkerFinish ==
    /\ running > 0
    /\ running' = running - 1
    /\ active_connections' = active_connections - 1
    /\ UNCHANGED <<main_pc, handler_pc, connection_queue, total_connections,
                   rejected_connections, accepted, accept_closed,
                   handlerVars, storeVars, strVars, stopVars, extraVars, callVars>>

(* ---------------- locks: mount_lock, user_lock, RTCM2ParserManager.lock ---------------- *)
Threads == {"t1", "t2", "t3"}
NoThread == "none"
Locks == {"mount_lock", "user_lock", "parser_lock"}

Acquire(l) == [op |-> "acquire", lock |-> l]
Release(l) == [op |-> "release", lock |-> l]
\* a socket or subprocess call: socket.close, subprocess.run
SocketIO == [op |-> "io", lock |-> "none"]
\* RTCMParserThread.stop: self.join(timeout=5)
JoinParser == [op |-> "join", lock |-> "none"]

\* remove_mount_connection: the socket is closed inside the region of mount_lock
Ops_remove_mount_connection ==
    <<Acquire("mount_lock"), SocketIO, Release("mount_lock")>>

\* cleanup_zombie_connections with one zombie: netstat, then the region of
\* mount_lock in which remove_mount_connection is called
Ops_cleanup_zombie_connections ==
    <<SocketIO, Acquire("mount_lock")>> \o Ops_remove_mount_connection
        \o <<Release("mount_lock")>>

\* stop_parser of a registered parser
Ops_stop_parser ==
    <<Acquire("parser_lock"), JoinParser, Release("parser_lock")>>

\* start_parser for a mount that has a parser: stop_parser, then the new thread
Ops_start_parser ==
    <<Acquire("parser_lock")>> \o Ops_stop_parser \o <<Release("parser_lock")>>

\* add_mount_connection: start_str_correction calls start_parser inside the
\* region of mount_lock
Ops_add_mount_connection ==
    <<Acquire("mount_lock")>> \o Ops_start_parser \o <<Release("mount_lock")>>

Ops_get_statistics ==
    <<Acquire("mount_lock"), Acquire("user_lock"),
      Release("user_lock"), Release("mount_lock")>>

Ops_add_user_connection == <<Acquire("user_lock"), Release("user_lock")>>

\* remove_user_connection closes the client socket in the region of user_lock
Ops_remove_user_connection ==
    <<Acquire("user_lock"), SocketIO, Release("user_lock")>>

Ops_wait_and_correct_Nested ==
    <<Acquire("parser_lock"),
      Acquire("mount_lock"), Release("mount_lock")>>
        \o Ops_stop_parser \o <<Release("parser_lock")>>

\* wait_and_correct after its sleep: get_result, _process_str_data, stop_parser
Ops_wait_and_correct ==
    <<Acquire("parser_lock"), Release("parser_lock"),
      Acquire("mount_lock"), Release("mount_lock")>> \o Ops_stop_parser

\* start_realtime_parsing: start_parser inside the region of the manager's lock
Ops_start_realtime_parsing ==
    <<Acquire("parser_lock")>> \o Ops_start_parser \o <<Release("parser_lock")>>

OpNames ==
    {"remove_mount_connection", "cleanup_zombie_connections", "add_mount_connection",
     "get_statistics", "add_user_connection", "remove_user_connection",
     "wait_and_correct", "start_realtime_parsing"}

Program(name) ==
    CASE name = "remove_mount_connection" -> Ops_remove_mount_connection
      [] name = "cleanup_zombie_connections" -> Ops_cleanup_zombie_connections
      [] name = "add_mount_connection" -> Ops_add_mount_connection
      [] name = "get_statistics" -> Ops_get_statistics
      [] name = "add_user_connection" -> Ops_add_user_connection
      [] name = "remove_user_connection" -> Ops_remove_user_connection
      [] name = "wait_and_correct" -> Ops_wait_and_correct
      [] name = "start_realtime_parsing" -> Ops_start_realtime_parsing
      [] OTHER -> << >>

\* the instruction thread t executes next
NextInstr(t) ==
    IF thread_op[t] \in OpNames /\ thread_ip[t] <= Len(Program(thread_op[t]))
    THEN Program(thread_op[t])[thread_ip[t]]
    ELSE [op |-> "none", lock |-> "none"]

InitLocks ==
    /\ lock_owner = [l \in Locks |-> NoThread]
    /\ lock_depth = [l \in Locks |-> 0]
    /\ thread_op = [t \in Threads |-> "idle"]
    /\ thread_ip = [t \in Threads |-> 1]

(* ---------------- ParserManager (rtcm2_manager.py) ---------------- *)
\* the parser threads one behaviour may create
MaxParsers == 3
NoMount == "none"

InitManager ==
    manager = [parsers |-> << >>, web_parsers |-> << >>, str_parsers |-> << >>,
               current_web_mount |-> NoMount, made |-> 0, stopped |-> {}]

\* RTCMParserThread.stop on the parser object p
StopThread(mg, p) == [mg EXCEPT !.stopped = @ \cup {p}]

stop_parser(mg, mount_name) ==
    IF mount_name \in DOMAIN mg.parsers
    THEN LET st == StopThread(mg, mg.parsers[mount_name])
             d  == [st EXCEPT !.parsers = DictDel(@, mount_name)]
         IN  IF mount_name \in DOMAIN d.web_parsers
             THEN [d EXCEPT !.web_parsers = DictDel(@, mount_name)]
             ELSE IF mount_name \in DOMAIN d.str_parsers
                  THEN [d EXCEPT !.str_parsers = DictDel(@, mount_name)]
                  ELSE d
    ELSE mg

\* started: the thread was created and started; otherwise the except branch ran
start_parser(mg, mount_name, mode, started) ==
    LET st == IF mount_name \in DOMAIN mg.parsers
              THEN stop_parser(mg, mount_name) ELSE mg
        parser == st.made + 1
        cl == IF mode = "str_fix"
              THEN [st EXCEPT !.str_parsers = DictSet(@, mount_name, parser)]
              ELSE [st EXCEPT !.web_parsers = DictSet(@, mount_name, parser)]
    IN  IF started
        THEN [state |-> [cl EXCEPT !.parsers = DictSet(@, mount_name, parser),
                                   !.made = parser],
              success |-> TRUE]
        ELSE [state |-> st, success |-> FALSE]

_stop_web_parser_only(mg, mount_name) ==
    IF mount_name \in DOMAIN mg.web_parsers
    THEN LET st == StopThread(mg, mg.web_parsers[mount_name])
             w  == [st EXCEPT !.web_parsers = DictDel(@, mount_name)]
             p  == IF mount_name \in DOMAIN w.parsers
                   THEN [w EXCEPT !.parsers = DictDel(@, mount_name)] ELSE w
         IN  IF p.current_web_mount = mount_name
             THEN [p EXCEPT !.current_web_mount = NoMount] ELSE p
    ELSE mg

start_realtime_parsing(mg, mount_name, started) ==
    LET s1 == IF mg.current_web_mount # NoMount /\ mg.current_web_mount # mount_name
              THEN _stop_web_parser_only(mg, mg.current_web_mount) ELSE mg
        s2 == IF mount_name \in DOMAIN s1.web_parsers
              THEN _stop_web_parser_only(s1, mount_name) ELSE s1
        r  == start_parser(s2, mount_name, "realtime_web", started)
    IN  IF r.success
        THEN [r.state EXCEPT !.current_web_mount = mount_name]
        ELSE r.state

RECURSIVE StopWebParsers(_, _)
StopWebParsers(mg, web_mounts) ==
    IF web_mounts = {} THEN mg
    ELSE LET mount_name == CHOOSE m \in web_mounts : TRUE
         IN  StopWebParsers(_stop_web_parser_only(mg, mount_name),
                            web_mounts \ {mount_name})

stop_realtime_parsing(mg) ==
    [StopWebParsers(mg, DOMAIN mg.web_parsers) EXCEPT !.current_web_mount = NoMount]

\* start_str_correction: parser_manager.start_parser(mount_name, mode="str_fix")
CallStartStrFix(mount_name) ==
    /\ manager.made < MaxParsers
    /\ \E started \in BOOLEAN :
          manager' = start_parser(manager, mount_name, "str_fix", started).state
    /\ call' = [fn |-> "start_parser", mount |-> mount_name]
    /\ UNCHANGED <<result, handlerVars, casterVars, storeVars, strVars, stopVars,
                   lockVars, admVars>>

\* wait_and_correct and release_parser: parser_manager.stop_parser(mount_name)
CallStopParser(mount_name) ==
    /\ manager' = stop_parser(manager, mount_name)
    /\ call' = [fn |-> "stop_parser", mount |-> mount_name]
    /\ UNCHANGED <<result, handlerVars, casterVars, storeVars, strVars, stopVars,
                   lockVars, admVars>>

CallStartRealtime(mount_name) ==
    /\ manager.made < MaxParsers
    /\ \E started \in BOOLEAN :
          manager' = start_realtime_parsing(manager, mount_name, started)
    /\ call' = [fn |-> "start_realtime_parsing", mount |-> mount_name]
    /\ UNCHANGED <<result, handlerVars, casterVars, storeVars, strVars, stopVars,
                   lockVars, admVars>>

CallStopRealtime ==
    /\ manager' = stop_realtime_parsing(manager)
    /\ call' = [fn |-> "stop_realtime_parsing", mount |-> NoMount]
    /\ UNCHANGED <<result, handlerVars, casterVars, storeVars, strVars, stopVars,
                   lockVars, admVars>>

InitExtra == InitLocks /\ InitAdmissions /\ InitManager

LockFrame == <<handlerVars, casterVars, storeVars, callVars, strVars, stopVars, admVars, mgrVars>>

\* a thread enters an operation
ThreadCall(t, name) ==
    /\ thread_op[t] = "idle"
    /\ thread_op' = [thread_op EXCEPT ![t] = name]
    /\ thread_ip' = [thread_ip EXCEPT ![t] = 1]
    /\ UNCHANGED <<lock_owner, lock_depth, LockFrame>>

\* RLock.acquire: granted when the lock is free or held by the caller
ThreadAcquire(t) ==
    /\ NextInstr(t).op = "acquire"
    /\ lock_owner[NextInstr(t).lock] \in {NoThread, t}
    /\ lock_owner' = [lock_owner EXCEPT ![NextInstr(t).lock] = t]
    /\ lock_depth' = [lock_depth EXCEPT ![NextInstr(t).lock] = @ + 1]
    /\ thread_ip' = [thread_ip EXCEPT ![t] = @ + 1]
    /\ UNCHANGED <<thread_op, LockFrame>>

\* RLock.release
ThreadRelease(t) ==
    /\ NextInstr(t).op = "release"
    /\ lock_depth' = [lock_depth EXCEPT ![NextInstr(t).lock] = @ - 1]
    /\ lock_owner' = [lock_owner EXCEPT ![NextInstr(t).lock] =
                         IF lock_depth[NextInstr(t).lock] = 1 THEN NoThread ELSE t]
    /\ thread_ip' = [thread_ip EXCEPT ![t] = @ + 1]
    /\ UNCHANGED <<thread_op, LockFrame>>

\* a socket or subprocess call, or the bounded join of a parser thread, returns
ThreadIO(t) ==
    /\ NextInstr(t).op \in {"io", "join"}
    /\ thread_ip' = [thread_ip EXCEPT ![t] = @ + 1]
    /\ UNCHANGED <<lock_owner, lock_depth, thread_op, LockFrame>>

\* the operation returns
ThreadReturn(t) ==
    /\ thread_op[t] \in OpNames
    /\ thread_ip[t] > Len(Program(thread_op[t]))
    /\ thread_op' = [thread_op EXCEPT ![t] = "idle"]
    /\ thread_ip' = [thread_ip EXCEPT ![t] = 1]
    /\ UNCHANGED <<lock_owner, lock_depth, LockFrame>>

InitConnections ==
    /\ pc = [c \in Conns |-> "idle"]
    /\ req = [c \in Conns |-> NoReq]
    /\ resp = [c \in Conns |-> 0]
    /\ sockOpen = [c \in Conns |-> TRUE]
    /\ peerUp = [c \in Conns |-> TRUE]
    /\ established = [c \in Conns |-> FALSE]
    /\ netstat = [c \in Conns |-> {}]
    /\ timer = [c \in Conns |-> "none"]
    /\ online_mounts = << >>
    /\ ring = << >>
    /\ clients = << >>
    /\ now = 0

InitUsers ==
    /\ online_users = << >>
    /\ user_connection_count = << >>
    /\ mount_connection_count = [m \in Mounts |-> 0]

Init ==
    /\ InitConnections
    /\ InitUsers
    /\ InitCaster
    /\ InitStop
    /\ InitExtra
    /\ InitStr
    /\ InitStore
    /\ InitIdle

\* the steps of an upload handler and of its delayed cleanup
UploadStep(c) ==
    \/ UpNetstat(c)
    \/ cleanup_zombie_connections(c)
    \/ UpIsOnline(c)
    \/ UpGetInfo(c)
    \/ UpEvict(c)
    \/ UpAuth(c)
    \/ UpAdd(c)
    \/ UpRecvData(c)
    \/ UpRecvEnd(c)
    \/ UpFinally(c)
    \/ TimerRemoveBuffer(c)
    \/ TimerRemoveMount(c)

\* the steps of a download handler up to its subscription
DownloadStep(c) ==
    \/ DlAuth(c)
    \/ DlCheckMount(c)
    \/ DlAddUser(c)
    \/ DlAddClient(c)

\* the steps of a subscriber's sender task and the end of its handler
SubscriberStep(c) ==
    \/ SenderSend(c)
    \/ SenderError(c)
    \/ SlowWindowElapsed(c)
    \/ DlEnd(c)

\* one producer slot, one slot that is either, and one consumer slot
Next ==
    \/ Connect("c1", SourceRequests)
    \/ Connect("c2", BasicUploadRequests \cup DownloadRequests)
    \/ Connect("c3", DownloadRequests)
    \/ \E c \in {"c1", "c2", "c3"} : PeerClose(c)
    \/ \E c \in {"c1", "c2"} : UploadStep(c)
    \/ \E c \in {"c2", "c3"} : DownloadStep(c) \/ SubscriberStep(c)
    \/ Tick

Spec == Init /\ [][Next]_vars

\* producers only, from the same and from different addresses
NextUpload ==
    \/ \E c \in {"c1", "c2", "c3"} : Connect(c, SourceRequests)
    \/ \E c \in {"c1", "c2", "c3"} : PeerClose(c)
    \/ \E c \in {"c1", "c2", "c3"} : UploadStep(c)

SpecUpload == Init /\ [][NextUpload]_vars

\* consumers only, one more than a user may hold
NextDownload ==
    \/ \E c \in Conns : Connect(c, DownloadRequests)
    \/ \E c \in Conns : DownloadStep(c)
    \/ Tick

SpecDownload == Init /\ [][NextDownload]_vars

\* the accepting thread, the dispatching thread and the workers of NTRIPCaster
NextCaster ==
    \/ MainAccept
    \/ MainPut
    \/ HandlerSubmit
    \/ HandlerCount
    \/ WorkerFinish

SpecCaster == Init /\ [][NextCaster]_vars

\* hashing a password and verifying another against the record
InitPassword ==
    /\ InitConnections
    /\ InitUsers
    /\ InitCaster
    /\ InitStop
    /\ InitExtra
    /\ InitStr
    /\ InitStore
    /\ call \in HashCalls
    /\ result = NoResult

NextPassword == CallHashVerify

SpecPassword == InitPassword /\ [][NextPassword]_vars

\* one call of verify_user, for every request, store and connection count
InitAuth ==
    /\ InitConnections
    /\ InitCaster
    /\ InitStop
    /\ InitExtra
    /\ InitStr
    /\ \E st \in StoreStates :
          /\ db_mount_rows = st[1]
          /\ db_users = st[2]
          /\ db_mounts = DOMAIN st[1]
    /\ \E us \in UserStates :
          /\ online_users = us[1]
          /\ user_connection_count = us[2]
          /\ mount_connection_count =
                [m \in Mounts |-> IF us[1] = << >> THEN 0 ELSE MAX_CONNECTIONS_PER_USER]
    /\ call \in UploadCalls \cup DownloadCalls
    /\ result = NoResult

NextAuth == CallVerifyUser

SpecAuth == InitAuth /\ [][NextAuth]_vars

\* updates of the mounts table, from every store
InitUpdate ==
    /\ InitConnections
    /\ InitUsers
    /\ InitCaster
    /\ InitStop
    /\ InitExtra
    /\ InitStr
    /\ \E st \in StoreStates :
          /\ db_mount_rows = st[1]
          /\ db_users = st[2]
          /\ db_mounts = DOMAIN st[1]
    /\ InitIdle

NextUpdate == \E a \in UpdateMountArgs : CallUpdateMount(a)

SpecUpdate == InitUpdate /\ [][NextUpdate]_vars

\* one RTSP command, for every store and connection count
InitRtsp ==
    /\ InitConnections
    /\ InitCaster
    /\ InitStop
    /\ InitExtra
    /\ InitStr
    /\ \E st \in StoreStates :
          /\ db_mount_rows = st[1]
          /\ db_users = st[2]
          /\ db_mounts = DOMAIN st[1]
    /\ \E us \in UserStates :
          /\ online_users = us[1]
          /\ user_connection_count = us[2]
          /\ mount_connection_count =
                [m \in Mounts |-> IF us[1] = << >> THEN 0 ELSE MAX_CONNECTIONS_PER_USER]
    /\ call \in RtspCalls
    /\ result = NoResult

NextRtsp == CallRtsp

SpecRtsp == InitRtsp /\ [][NextRtsp]_vars

\* what handle_request and handle_upload write to the log for one request
InitLog ==
    /\ InitConnections
    /\ InitUsers
    /\ InitCaster
    /\ InitStop
    /\ InitExtra
    /\ InitStr
    /\ InitStore
    /\ call \in LoggedRequests
    /\ result = NoResult

NextLog ==
    \/ LogRequest
    \/ LogUploadAuth

SpecLog == InitLog /\ [][NextLog]_vars

\* the registry's STR rows: admissions, removals, corrections and mount lists
NextStr ==
    \/ \E m \in RowMounts, ua \in UserAgents, s \in Sockets :
          AddMount(m, ua, s) /\ UNCHANGED admVars
    \/ \E m \in RowMounts : RemoveMount(m) /\ UNCHANGED admVars
    \/ \E m \in RowMounts : WaitAndCorrect(m) /\ UNCHANGED admVars
    \/ \E v \in {"1.0", "2.0"} : SendMountList(v)

SpecStr == Init /\ [][NextStr]_vars

\* admissions, removals and corrections of one mount name, each object followed
\* back to the admission it belongs to
NextAdmit ==
    \/ \E s \in Sockets : AddMount("M1", <<"ua">>, s) /\ AdmitObserved("M1")
    \/ RemoveMount("M1") /\ RemoveObserved("M1")
    \/ WaitAndCorrect("M1") /\ CorrectObserved("M1")

SpecAdmit == Init /\ [][NextAdmit]_vars

\* one GET request against a registry
InitGet ==
    /\ InitConnections
    /\ InitUsers
    /\ InitCaster
    /\ InitStop
    /\ InitExtra
    /\ InitStore
    /\ mount_infos \in Registries
    /\ str_threads = [m \in RowMounts |-> 0]
    /\ parsers = {}
    /\ call \in GetRequests
    /\ result = NoResult

NextGet == HandleGet

SpecGet == InitGet /\ [][NextGet]_vars

\* two producers and a consumer while the caster is stopped; connections are
\* accepted while the server socket is open, and the stopping thread runs
NextStop ==
    \/ stop_pc \in {"idle", "close"} /\ \E c \in {"c1", "c2"} : Connect(c, SourceRequests)
    \/ stop_pc \in {"idle", "close"} /\ Connect("c3", DownloadRequests)
    \/ \E c \in {"c1", "c2", "c3"} : PeerClose(c)
    \/ \E c \in {"c1", "c2"} : UploadStep(c)
    \/ DownloadStep("c3") \/ SubscriberStep("c3")
    \/ StopStep

\* a handler thread that is not waiting for its peer takes its next step
HandlerProgress ==
    \E c \in {"c1", "c2", "c3"} :
        pc[c] \notin {"recv", "alive"} /\ (UploadStep(c) \/ DownloadStep(c))

SpecStop == Init /\ [][NextStop]_vars /\ WF_vars(StopStep) /\ WF_vars(HandlerProgress)

\* threads calling the operations that take the three locks
NextLock ==
    \/ \E t \in Threads, name \in OpNames : ThreadCall(t, name)
    \/ \E t \in Threads : ThreadAcquire(t)
    \/ \E t \in Threads : ThreadRelease(t)
    \/ \E t \in Threads : ThreadIO(t)
    \/ \E t \in Threads : ThreadReturn(t)

SpecLock == Init /\ [][NextLock]_vars

NextManager ==
    \/ \E m \in RowMounts : CallStartStrFix(m)
    \/ \E m \in RowMounts : CallStopParser(m)
    \/ \E m \in RowMounts : CallStartRealtime(m)
    \/ CallStopRealtime

SpecManager == Init /\ [][NextManager]_vars

(* ---------------- the user connection table on its own ---------------- *)
MaxRecords == 3
TableUsers == {"u1", "u2"}
TableMounts == {"M1", "M2"}
TableIds == {ConnectionId(u, m, t) : u \in TableUsers, m \in TableMounts, t \in 0..MaxTime}

RECURSIVE SumRecords(_, _)
SumRecords(ou, us) ==
    IF us = {} THEN 0
    ELSE LET u == CHOOSE x \in us : TRUE
         IN  Len(ou[u]) + SumRecords(ou, us \ {u})

InitTable ==
    /\ InitConnections
    /\ online_users = << >>
    /\ user_connection_count = << >>
    /\ mount_connection_count = [m \in TableMounts |-> 0]
    /\ InitCaster
    /\ InitStop
    /\ InitExtra
    /\ InitStr
    /\ InitStore
    /\ InitIdle

TableFrame == <<connVars, online_mounts, db_mounts, fwdVars, casterVars, storeVars,
                strVars, stopVars, extraVars>>

CallAddUser(username, mount_name) ==
    /\ SumRecords(online_users, DOMAIN online_users) < MaxRecords
    /\ add_user_connection(username, mount_name)
    /\ call' = [fn |-> "add_user_connection", username |-> username]
    /\ result' = [done |-> TRUE, removed |-> FALSE]
    /\ UNCHANGED <<TableFrame, now>>

CallRemoveUser(username, connection_id, mount_name) ==
    /\ remove_user_connection(username, connection_id, mount_name)
    /\ call' = [fn |-> "remove_user_connection", username |-> username]
    /\ result' = [done |-> TRUE,
                  removed |-> /\ username \in DOMAIN online_users
                              /\ connections_to_remove(username, connection_id,
                                                       mount_name) # << >>]
    /\ UNCHANGED <<TableFrame, now>>

TableTick ==
    /\ now < MaxTime
    /\ now' = now + 1
    /\ UNCHANGED <<TableFrame, userVars, callVars>>

NextTable ==
    \/ \E u \in TableUsers, m \in TableMounts : CallAddUser(u, m)
    \/ \E u \in TableUsers, id \in TableIds \cup {NoId},
          m \in TableMounts \cup {NoMountArg} : CallRemoveUser(u, id, m)
    \/ TableTick

SpecTable == InitTable /\ [][NextTable]_vars

(* ======================= the claims ======================= *)
Range(q) == {q[i] : i \in 1..Len(q)}
Increasing(q) == \A i, j \in 1..Len(q) : i < j => q[i] < q[j]
Producers(m) ==
    {c \in Conns : pc[c] = "recv" /\ req[c].mount = m /\ established[c] /\ sockOpen[c]}

\* C1: an upload that finds its mount registered from another address is answered
\* 409, its socket is closed, the handler ends, and the registry and every other
\* socket are left as they were (the registry is a dictionary keyed by mount name).
C1_Exclusivity ==
    [][\A c \in Conns :
        (/\ pc[c] = "up_info" /\ pc'[c] # "up_info"
         /\ req[c].mount \in DOMAIN online_mounts
         /\ online_mounts[req[c].mount].ip_address # client_address[c])
        => (/\ resp'[c] = 409 /\ pc'[c] = "done" /\ ~sockOpen'[c]
            /\ online_mounts' = online_mounts
            /\ \A x \in Conns \ {c} : sockOpen'[x] = sockOpen[x]
            /\ ring' = ring)]_vars

C1_Witness ==
    \E c \in Conns :
        /\ resp[c] = 409 /\ pc[c] = "done"
        /\ req[c].mount \in DOMAIN online_mounts
        /\ online_mounts[req[c].mount].ip_address # client_address[c]
        /\ sockOpen[online_mounts[req[c].mount].client_socket]
        /\ online_mounts[req[c].mount].data_count > 0

\* C2: at most one admitted producer connection per mount is in the receive loop
\* with its socket open.
C2_SingleProducer == \A m \in Mounts : Cardinality(Producers(m)) <= 1

\* C3: a same-address upload is not answered 409, and the step that evicts the
\* previous entry leaves the mount registered (eviction and re-admission are one step).
C3_AtomicReplace ==
    [][\A c \in Conns :
        /\ (/\ pc[c] = "up_info" /\ pc'[c] # "up_info"
            /\ req[c].mount \in DOMAIN online_mounts
            /\ online_mounts[req[c].mount].ip_address = client_address[c])
           => resp'[c] # 409
        /\ (pc[c] = "up_evict" /\ pc'[c] # "up_evict")
           => req[c].mount \in DOMAIN online_mounts']_vars

\* C4: the step with which a producer whose connection ended (EOF or socket error)
\* leaves the receive loop keeps its mount registered: the grace delay has not elapsed.
C4_GraceDelay ==
    [][\A c \in Conns :
        (/\ pc[c] = "up_finally" /\ pc'[c] = "done"
         /\ ~peerUp[c] \/ ~sockOpen[c]
         /\ req[c].mount \in DOMAIN online_mounts
         /\ online_mounts[req[c].mount].client_socket = c
         /\ timer'[c] = "pending")
        => req[c].mount \in DOMAIN online_mounts']_vars

\* C5: what a subscriber has been sent, followed by what waits in its outbox, is an
\* increasing sequence of chunks published to its mount after it subscribed, and every
\* such chunk is exactly one of: sent, waiting, dropped whole from the outbox.
C5_DeliveryOrder ==
    \A s \in DOMAIN clients :
        LET sub == clients[s]
            seen == sub.delivered \o sub.outbox
        IN  /\ Increasing(seen)
            /\ Increasing(sub.dropped)
            /\ Range(seen) \cap Range(sub.dropped) = {}
            /\ Range(seen) \cup Range(sub.dropped) = (sub.start + 1)..RingSeq(sub.mount)
            /\ \A d \in Range(sub.dropped) : \A k \in Range(sub.outbox) : d < k

C5_Witness ==
    \E s \in DOMAIN clients :
        /\ clients[s].dropped # << >>
        /\ Len(clients[s].delivered) >= 2

\* C6: an outbox never holds more than its capacity, and a publish to a full outbox
\* drops its oldest chunk and enqueues the new one.
C6_OutboxBounded ==
    /\ [](\A s \in DOMAIN clients : Len(clients[s].outbox) <= MaxOutbox)
    /\ [][\A s \in DOMAIN clients \cap DOMAIN clients' :
            (/\ Len(clients[s].outbox) = MaxOutbox
             /\ RingSeq(clients[s].mount)' = RingSeq(clients[s].mount) + 1)
            => clients'[s].outbox =
                   Append(Tail(clients[s].outbox), RingSeq(clients[s].mount) + 1)]_vars

C6_Witness ==
    \E s \in DOMAIN clients :
        /\ Len(clients[s].outbox) = MaxOutbox
        /\ clients[s].dropped # << >>
        /\ clients[s].outbox[MaxOutbox] = RingSeq(clients[s].mount)

C8_SubscribersHaveMount ==
    /\ \A u \in DOMAIN online_users : \A i \in 1..Len(online_users[u]) :
           online_users[u][i].mount_name \in DOMAIN online_mounts
    /\ \A s \in DOMAIN clients : clients[s].mount \in DOMAIN online_mounts

\* C9: a download whose credentials verify and whose mount is not in the registry is
\* answered 404 and its handler ends without registering anything.
C9_NotLive404 ==
    [][\A c \in Conns :
        (/\ pc[c] = "dl_check" /\ pc'[c] # "dl_check"
         /\ req[c].mount \notin DOMAIN online_mounts)
        => (resp'[c] = 404 /\ pc'[c] = "done" /\ online_users' = online_users)]_vars

\* C10: no user holds more than MAX_CONNECTIONS_PER_USER registered connections.
C10_PerUserCap ==
    \A u \in DOMAIN online_users : Len(online_users[u]) <= MAX_CONNECTIONS_PER_USER

\* C11: active_connections equals the number of connections handed to a worker
\* and not finished, and lies between 0 and MAX_CONNECTIONS.
C11_ActiveCount ==
    /\ active_connections = running
    /\ active_connections >= 0
    /\ active_connections <= MAX_CONNECTIONS

\* C15: a password verifies against its own hash, and no other password does.
C15_HashVerify ==
    (call.fn = "hash_password" /\ result.done) =>
        /\ call.p1 = call.p2 => result.ok
        /\ call.p1 # call.p2 => ~result.ok

\* the mount password a request supplies: the one of its request line or URL,
\* otherwise the one of its Basic credentials
SuppliedMountPassword(c) ==
    IF c.ntrip1_password # NoPassword THEN c.ntrip1_password
    ELSE IF c.header.scheme = "Basic" THEN c.header.password
    ELSE NoPassword

UploadAnswered(dialects) ==
    call.fn = "verify_user" /\ result.done /\ call.request_type = "upload"
        /\ call.protocol_type \in dialects

\* C12: an upload that is not NTRIP 2.0 has its credentials accepted exactly when
\* the mount is in the store and the supplied password is the mount's secret,
\* whatever user name or user password the request carries.
C12_MountSecretOnly ==
    UploadAnswered({"ntrip1_0", "ntrip1_0_http", "ntrip0_8", "rtsp"}) =>
        (result.credentials <=>
            /\ call.mount \in DOMAIN db_mount_rows
            /\ db_mount_rows[call.mount].password = SuppliedMountPassword(call))

\* the user's credentials verify: the user is in the store and the password of
\* the Basic credentials verifies against the stored record
UserVerifies(c) ==
    /\ c.header.scheme = "Basic"
    /\ c.header.username \in DOMAIN db_users
    /\ verify_password(db_users[c.header.username].password, c.header.password)

C14_DownloadCredentials ==
    (call.fn = "verify_user" /\ result.done /\ call.request_type = "download") =>
        (result.credentials <=>
            /\ call.mount \in DOMAIN db_mount_rows
            /\ UserVerifies(call))

\* a download of a mount owned by another user is accepted
C14_Witness ==
    /\ call.fn = "verify_user" /\ result.done /\ call.request_type = "download"
    /\ result.credentials
    /\ db_mount_rows[call.mount].user_id \notin {NoOwner, db_users[call.header.username].id}

\* the response a client computes from the user's password for "/<mount>"
ClientResponse(c, password) ==
    DigestResponse(c.header.username, "NTRIP", password, c.header.nonce,
                   c.current_method, <<"/", c.mount>>, "lower")

\* C16: an NTRIP 2.0 download with Digest credentials of a stored user for a
\* stored mount is admitted exactly when its response is the one computed from
\* the user's password, realm "NTRIP", the nonce and the uri "/<mount>".
C16_DigestDownload ==
    (/\ call.fn = "verify_user" /\ result.done
     /\ call.request_type = "download" /\ call.protocol_type = "ntrip2_0"
     /\ call.header.scheme = "Digest"
     /\ call.mount \in DOMAIN db_mount_rows
     /\ call.header.username \in DOMAIN db_users) =>
        (result.credentials <=>
            \E p \in StoredPasswords, s \in Salts :
                /\ db_users[call.header.username].password = hash_password(p, s)
                /\ call.header.response = ClientResponse(call, p))

\* C17: no text written to the log for a request contains a password of its
\* request line or URL, or the credentials of its Authorization header.
C17_NoSecretLogged ==
    (call.fn = "handle_request" /\ result # NoResult) =>
        \A text \in result.log : \A i \in 1..Len(text) : \A j \in 1..Len(text[i]) :
            text[i][j] \notin SecretTokens

\* number of the lines of a response body equal to a row
Occurrences(lines, row) == Cardinality({i \in 1..Len(lines) : lines[i] = row})
STRLines(lines) == {i \in 1..Len(lines) : Split(lines[i])[1] = <<"STR">>}

\* C18: the sourcetable response holds the stored row of every live mount exactly
\* once, and every STR line of it is the row of a live mount.
C18_SourcetableRows ==
    (call.fn = "_send_mount_list" /\ result # NoResult) =>
        /\ \A i \in 1..Len(mount_infos) :
              Occurrences(result.body, mount_infos[i].str_data) = 1
        /\ Cardinality(STRLines(result.body)) = Len(mount_infos)
        /\ \A i \in STRLines(result.body) :
              \E k \in 1..Len(mount_infos) : result.body[i] = mount_infos[k].str_data

\* a list sent while one mount is live with a corrected row and the other was removed
C18_Witness ==
    /\ call.fn = "_send_mount_list" /\ result # NoResult
    /\ Len(mount_infos) = 1
    /\ mount_infos[1].final_str_generated
    /\ \E m \in RowMounts \ LiveMounts(mount_infos) : str_threads[m] > 0

\* C19: a GET of "/" or of "/sourcetable" is answered with the sourcetable of the
\* registry, whatever the request is classified as.
C19_SourcetablePaths ==
    (/\ call.fn = "handle_request" /\ result # NoResult
     /\ call.request_line[2] \in {"/", "/sourcetable"}) =>
        /\ result.status_line \in {"HTTP/1.1 200 OK", "SOURCETABLE 200 OK"}
        /\ result.body = <<CasLine, NetLine>> \o generate_mount_list(mount_infos)

\* field 19 of the row of a registered mount
Field19(info) == Split(info.str_data)[19]

\* C20: field 19 of a registered mount's row is "NO" while no correction was
\* applied since its admission and "YES" afterwards, and it does not go from
\* "YES" to "NO" while the producer's entry stays in the registry.
C20_VerifiedFlag ==
    /\ [](\A i \in 1..Len(mount_infos) :
            /\ Len(Split(mount_infos[i].str_data)) = 19
            /\ Field19(mount_infos[i]) =
                  (IF mount_infos[i].final_str_generated THEN <<"YES">> ELSE <<"NO">>))
    /\ [][\A i \in 1..Len(mount_infos), j \in 1..Len(mount_infos') :
            (/\ mount_infos[i].mount_name = mount_infos'[j].mount_name
             /\ mount_infos[i].client_socket = mount_infos'[j].client_socket
             /\ Field19(mount_infos[i]) = <<"YES">>)
                => Field19(mount_infos'[j]) = <<"YES">>]_vars

\* a corrected row next to the initial row of a mount admitted again
C20_Witness ==
    /\ Len(mount_infos) = 2
    /\ mount_infos[1].final_str_generated /\ Field19(mount_infos[1]) = <<"YES">>
    /\ ~mount_infos[2].final_str_generated /\ Field19(mount_infos[2]) = <<"NO">>
    /\ str_threads[mount_infos[2].mount_name] = 2

\* C21: applying an inspection result to the row of a registered mount a second
\* time yields the row its first application yielded.
C21_CorrectionIdempotent ==
    \A i \in 1..Len(mount_infos) : \A parse_result \in ParseResults :
        LET m == mount_infos[i].mount_name
            once == _process_str_data(mount_infos, m, parse_result, "correct")
        IN  _process_str_data(once, m, parse_result, "correct") = once

\* a row to which the located result was applied, with another correction pending
C21_Witness ==
    \E i \in 1..Len(mount_infos) :
        /\ mount_infos[i].final_str_generated
        /\ Split(mount_infos[i].str_data)[3] = <<"Beijing">>
        /\ mount_infos[i].str_data =
              _process_str_data(mount_infos, mount_infos[i].mount_name,
                                ParseLocated, "correct")[i].str_data
        /\ str_threads[mount_infos[i].mount_name] > 0

\* C22: the result of a parser that has extracted nothing, applied by
\* wait_and_correct, leaves the row of the mount as it was, field 19 included.
C22_EmptyResultKeepsRow ==
    \A i \in 1..Len(mount_infos) :
        _process_str_data(mount_infos, mount_infos[i].mount_name, ParseEmpty, "correct")[i].str_data
            = mount_infos[i].str_data

\* C23: GET /<mount> HTTP/1.1 with Host and Basic credentials of a stored user,
\* without Ntrip-Version, is answered as an NTRIP 1.0 download: ICY 200 OK with
\* Connection: keep-alive.
C23_BasicDownloadIsV10 ==
    (/\ call.fn = "handle_request" /\ result # NoResult
     /\ call.request_line = <<"GET", "/M1", "HTTP/1.1">>
     /\ call.host /\ call.ntrip_version = ""
     /\ call.authorization.scheme = "Basic"
     /\ verify_download_user("M1", call.authorization.username, call.authorization.password)) =>
        /\ result.status_line = "ICY 200 OK"
        /\ result.headers = {"Connection: keep-alive"}

\* C24: a GET request in HTTP form without a Host header is answered as the
\* same request with a Host header is.
C24_MissingHostTolerated ==
    (/\ call.fn = "handle_request" /\ result # NoResult
     /\ Len(call.request_line) = 3 /\ ~call.host) =>
        result = handle_request(mount_infos, [call EXCEPT !.host = TRUE])

\* a producer whose mount entry is registered and whose socket is open
ProducersConnected == {c \in Conns : established[c] /\ sockOpen[c] /\ WorkerRunning(c)}

\* C25: stop closes the accept socket, closes every producer socket before it
\* waits for the worker pool, and returns although producers and consumers are
\* still connected.
C25_GracefulStop ==
    /\ [](stop_pc \in {"shutdown", "queue", "done"} => ProducersConnected = {})
    /\ (stop_pc = "close" ~> stop_pc = "done")

\* C26: a download of a user who holds MAX_CONNECTIONS_PER_USER connections, with
\* credentials that verify, is answered 403 and registers no connection.
C26_CapAnswered403 ==
    [][\A c \in Conns :
          (/\ pc[c] = "dl_auth" /\ pc'[c] # "dl_auth"
           /\ req[c].credOK /\ req[c].mount \in db_mounts
           /\ get_user_connection_count(req[c].user) >= MAX_CONNECTIONS_PER_USER)
              => /\ resp'[c] = 403
                 /\ pc'[c] = "done"
                 /\ online_users' = online_users
                 /\ user_connection_count' = user_connection_count]_vars

\* C27: the cleanup of an ended producer connection (its _cleanup and the two
\* calls of its delayed cleanup) leaves in place the mount entry of another
\* producer that is connected, and leaves that producer's socket open.
C27_CleanupSparesSuccessor ==
    [][\A c \in Conns, d \in Conns, m \in DOMAIN online_mounts :
          (/\ c # d /\ timer'[c] # timer[c]
           /\ online_mounts[m].client_socket = d
           /\ pc[d] = "recv" /\ sockOpen[d] /\ peerUp[d])
              => /\ m \in DOMAIN online_mounts'
                 /\ online_mounts'[m].client_socket = d
                 /\ sockOpen'[d]]_vars


UploadStates == {"up_netstat", "up_zombie", "up_online", "up_info", "up_evict", "up_auth"}

\* C28: no step of an upload handler whose credentials are wrong (so that the
\* upload ends rejected) adds, removes or replaces a mount entry or closes the
\* socket of a registered producer.
C28_RejectedUploadKeepsRegistry ==
    [][\A c \in Conns :
          (/\ pc[c] \in UploadStates /\ pc'[c] # pc[c]
           /\ req[c].kind = "upload" /\ ~req[c].credOK)
              => /\ online_mounts' = online_mounts
                 /\ \A m \in DOMAIN online_mounts :
                        sockOpen[online_mounts[m].client_socket]
                            => sockOpen'[online_mounts[m].client_socket]]_vars


\* C29: every connection returned by accept is either put on the connection
\* queue and counted once in total_connections, or closed by the accepting loop
\* and counted once in rejected_connections, never both and never neither; it
\* is rejected exactly when active_connections has reached MAX_CONNECTIONS at
\* the limit test or the queue is full at the put.
C29_AcceptAccounting ==
    /\ [](/\ accepted = total_connections + rejected_connections
                          + (IF main_pc = "put" THEN 1 ELSE 0)
          /\ accept_closed = rejected_connections)
    /\ [][/\ total_connections' # total_connections
               => /\ total_connections' = total_connections + 1
                  /\ connection_queue' = connection_queue + 1
                  /\ UNCHANGED <<rejected_connections, accept_closed>>
          /\ rejected_connections' # rejected_connections
               => /\ rejected_connections' = rejected_connections + 1
                  /\ accept_closed' = accept_closed + 1
                  /\ UNCHANGED <<total_connections, connection_queue>>
          /\ accepted' # accepted
               => (rejected_connections' # rejected_connections
                      <=> active_connections >= MAX_CONNECTIONS)
          /\ (main_pc = "put" /\ main_pc' # "put")
               => (rejected_connections' # rejected_connections
                      <=> connection_queue >= CONNECTION_QUEUE_SIZE)]_vars

\* two connections were enqueued and counted and none was dispatched, so that
\* the queue is full, and a third was closed and counted as rejected
C29_Witness ==
    /\ total_connections = 2 /\ connection_queue = CONNECTION_QUEUE_SIZE
    /\ active_connections = 0 /\ running = 0
    /\ rejected_connections = 1 /\ accept_closed = 1 /\ accepted = 3


\* C30: the connection ids of the live download connections are pairwise
\* different, also for two connections of one user to one mount.
C30_UniqueConnectionIds ==
    \A u \in DOMAIN online_users :
        \A i, j \in DOMAIN online_users[u] :
            i # j => online_users[u][i].connection_id # online_users[u][j].connection_id


\* C31: no thread that holds mount_lock is at a socket or subprocess call or at
\* the join of another thread.
C31_NoIOUnderMountLock ==
    \A t \in Threads :
        NextInstr(t).op \in {"io", "join"} => lock_owner["mount_lock"] # t

\* thread t waits for a lock that thread u holds
WaitsFor(t, u) ==
    /\ t # u
    /\ NextInstr(t).op = "acquire"
    /\ lock_owner[NextInstr(t).lock] = u

\* C39: no set of threads waits in a cycle for mount_lock, user_lock and the
\* parser manager's lock: in every non-empty set of threads some thread waits
\* for no thread of the set.
C39_NoLockCycle ==
    \A S \in SUBSET Threads :
        S # {} => \E t \in S : \A u \in S : ~WaitsFor(t, u)

\* add_mount_connection holds mount_lock and waits for the manager's lock while
\* wait_and_correct, which holds it, is joining the parser thread
C39_Witness ==
    \E t, u \in Threads :
        /\ thread_op[t] = "add_mount_connection" /\ lock_owner["mount_lock"] = t
        /\ WaitsFor(t, u)
        /\ thread_op[u] = "wait_and_correct" /\ NextInstr(u).op = "join"


\* C32: while the producer's connection is up, so that a read can only return
\* data or time out, the upload is not ended: the handler stays in its receive
\* loop.
C32_TimeoutKeepsUpload ==
    [][\A c \in Conns :
          (pc[c] = "recv" /\ RecvOutcomes(c) = {"data", "timeout"})
              => pc'[c] = "recv"]_vars


\* the download of the same mount with the same Authorization header by a GET
\* of an NTRIP 2.0 client
NormalDownload == DownloadPath("ntrip2_0", "2.0", "GET", call.mount, call.header)

\* C33: a PLAY command whose credentials the normal download of the mount
\* accepts ends subscribed to the mount, for the same user, as that download does.
C33_PlayIsDownload ==
    (/\ call.fn = "handle_rtsp_command" /\ call.method = "PLAY"
     /\ result.done /\ NormalDownload.subscribed)
        => /\ result.subscribed
           /\ result.username = NormalDownload.username
           /\ result.mount = NormalDownload.mount


\* C34: a step that removes a mount from the registry leaves neither the
\* producer's socket open nor the mount's ring buffer in place.
C34_RemovalIsComplete ==
    [][\A m \in DOMAIN online_mounts :
          m \notin DOMAIN online_mounts'
              => /\ ~sockOpen'[online_mounts[m].client_socket]
                 /\ m \notin DOMAIN ring']_vars


\* C35: the step of cleanup_zombie_connections that evicts removes exactly the
\* mounts whose producer address is not among the established peers, and leaves
\* the registry as it is when netstat failed.
C35_ZombiesExactly ==
    [][\A c \in Conns :
          (pc[c] = "up_zombie" /\ pc'[c] # "up_zombie")
              => IF netstat[c] = NetstatFailed
                 THEN online_mounts' = online_mounts
                 ELSE online_mounts' = RemoveMounts(zombie_mounts(established_ips))]_vars


\* C36: the wait_and_correct thread started by one admission of a mount neither
\* stops a parser that another admission started nor changes the STR row of an
\* entry that another admission made.
C36_FollowUpOwnAdmission ==
    [][\A m \in RowMounts : \A k \in 1..Len(admissions[m].threads) :
          (/\ str_threads'[m] < str_threads[m]
           /\ admissions'[m].threads = RemoveAt(admissions[m].threads, k))
              => /\ admissions[m].parser # admissions[m].threads[k]
                     => /\ admissions'[m].parser = admissions[m].parser
                        /\ (m \in parsers <=> m \in parsers')
                 /\ admissions[m].entry # admissions[m].threads[k]
                     => mount_infos' = mount_infos]_vars


\* C37: starting or stopping realtime web parsing leaves every registered STR-fix
\* parser registered under its mount and running, the requested mount included.
C37_WebKeepsStrFix ==
    [][call'.fn \in {"start_realtime_parsing", "stop_realtime_parsing"}
         => \A m \in DOMAIN manager.str_parsers :
               /\ m \in DOMAIN manager'.str_parsers
               /\ manager'.str_parsers[m] = manager.str_parsers[m]
               /\ m \in DOMAIN manager'.parsers
               /\ manager'.parsers[m] = manager.str_parsers[m]
               /\ manager.str_parsers[m] \notin manager'.stopped]_vars


RecordsOnMount(m) ==
    Cardinality({<<u, i>> \in TableUsers \X (1..MaxRecords) :
                    /\ u \in DOMAIN online_users
                    /\ i <= Len(online_users[u])
                    /\ online_users[u][i].mount_name = m})

\* C38: whatever add_user_connection and remove_user_connection calls have run,
\* the counter of every user equals the number of its records and the counter of
\* every mount equals the number of records that name the mount, and is not negative.
C38_CountersMatchRecords ==
    /\ \A u \in TableUsers :
          get_user_connection_count(u) = Len(UserList(online_users, u))
    /\ \A m \in DOMAIN mount_connection_count :
          /\ mount_connection_count[m] = RecordsOnMount(m)
          /\ mount_connection_count[m] >= 0

C38_Witness ==
    /\ call.fn = "remove_user_connection"
    /\ result.removed
    /\ \E u \in DOMAIN online_users : Len(online_users[u]) = 2
    /\ \E m \in TableMounts : mount_connection_count[m] = 2


NewName(c) == IF c.mount.given THEN c.mount.value ELSE c.mount_id

\* C40: a successful update_mount changes only what its arguments name: without a
\* new name the row keeps its name, without a new password its password, and
\* without an owner argument (user_id left at its default) its owner.
C40_UpdateTouchesOnlyGiven ==
    [][(call'.fn = "update_mount" /\ result'.success)
         => /\ ~call'.mount.given => call'.mount_id \in DOMAIN db_mount_rows'
            /\ ~call'.password.given =>
                  db_mount_rows'[NewName(call')].password
                      = db_mount_rows[call'.mount_id].password
            /\ call'.user_id = NoOwner =>
                  db_mount_rows'[NewName(call')].user_id
                      = db_mount_rows[call'.mount_id].user_id]_vars

====
